---- MODULE Spec2Model ----
(***************************************************************************)
(* A model of the client session runtime of e2b-go: the command handle     *)
(* (Commands.start / Commands.Connect, the background event pump, Wait,    *)
(* Kill, Disconnect), the streaming directory watcher (WatchDir and        *)
(* WatchHandle) and the sandbox's closed flag with its sub-facades.        *)
(*                                                                         *)
(* Each subsystem has its own specification; a subsystem's actions leave  *)
(* the other subsystems' variables unchanged.  Next to the three above,   *)
(* the module models the signed file URLs (SpecSig), the template build   *)
(* calls and their status polling (SpecBuild), the template builder's     *)
(* step list (SpecTpl) and, with the scheduling of the watcher's          *)
(* goroutine assumed fair, the watcher's termination (SpecWatchLive).     *)
(***************************************************************************)
EXTENDS Integers, Sequences, FiniteSets, TLC

\* Bounds of the model: how much the server (the environment) may emit, and
\* how many emitted events may wait to be received.
MaxBody == 2
MaxInFlight == 1
MaxWatchEvents == 2
NumStoppers == 2
MaxCalls == 2
MaxPages == 2
MaxPageSize == 2

\* Safety limit of the start loop (src/commands.go:323).
maxEvents == 100

\* Default of cfg.timeout, in seconds (src/unnamed/part_002:401).
DefaultCommandTimeout == 60

Nil == "nil"

VARIABLES
    \* ---- the process stream (Start or Connect response stream) ----
    sent,          \* events the server has emitted so far, in emission order
    streamEnd,     \* "open", "eof" (clean close) or "err" (closed with an error)
    rcv,           \* number of events the client has taken with Receive
    ctxCancelled,  \* streamCancel() has been called
    ctxExpired,    \* the deadline of streamCtx has passed
    \* ---- Commands.start / Commands.Connect, on the caller's task ----
    mode,          \* "start" or "connect"
    withCb,        \* the caller passed stdout/stderr callbacks
    timeout,       \* cfg.timeout in seconds; 0: no limit on the stream
    startPc,       \* position of the opening call
    startRes,      \* what the opening call returned
    startErr,      \* the *CommandExitError the opening call returned
    eventCount,
    earlyStdout,
    earlyStderr,
    \* ---- the CommandHandle ----
    pid,
    stdout,
    stderr,
    result,
    err,
    doneCloses,    \* number of close(h.done) executed; done is closed iff > 0
    canceled,
    \* ---- the pump goroutine ----
    pumpPc,
    pumpEv,
    \* ---- what the user's callbacks have been given, in invocation order ----
    cbStdout,
    cbStderr,
    \* ---- the user's calls on the handle ----
    waitRes,       \* what Wait returned, "none" before it returns
    waitVal,       \* the result Wait returned, or the fields of its CommandExitError
    killed,        \* Kill has been called
    \* ---- the WatchDir stream ----
    wQueue,        \* events emitted by the server and not yet received
    wEmitted,      \* number of events emitted
    wStreamEnd,    \* "open", "eof" or "err"
    wCtxCancelled, \* cancel() of watchCtx has been called
    \* ---- Filesystem.WatchDir, on the caller's task ----
    wOnEvent,      \* onEvent is not nil
    wOnExit,       \* cfg.onExit is not nil
    wOpenPc,
    wOpenRes,
    \* ---- the WatchHandle ----
    wErr,
    wDoneCloses,   \* number of close(handle.done) executed
    wStopped,
    \* ---- the event processing goroutine ----
    wPumpPc,
    wPumpErr,      \* stream.Err() when the loop ended
    onEventCalls,  \* number of onEvent invocations started
    onExitCalls,   \* number of onExit invocations started
    \* ---- the user's calls on the watch handle ----
    stopPc,        \* position of each task that calls Stop
    wWaitRes,      \* what WatchHandle.Wait returned, "none" before it returns
    eventsAtWait,  \* onEventCalls when Wait returned
    \* ---- the Sandbox ----
    debug,         \* s.config.debug
    apiKey,        \* s.config.apiKey
    closed,        \* s.closed
    closeCalls,    \* number of Close calls that have returned
    killRequests,  \* number of DELETE /sandboxes/{id} requests issued
    envdRequests,  \* number of requests the sub-facades sent to envd
    lastCall,      \* the last sub-facade call: method, closed at entry, outcome
    closeRes,      \* what the calls of Close returned so far
    rcPc,          \* where the RunCode call is
    rcLanguage,    \* cfg.language of the RunCode call ("" when not given)
    rcContext,     \* cfg.context of the RunCode call (Nil when not given)
    rcClosedAtEntry, \* Close had returned when the RunCode call began
    rcRes,         \* what the RunCode call returned
    rcSent,        \* the RunCode call has sent its /execute request
    rcCalls,       \* number of RunCode calls begun
    executeRequests, \* number of /execute requests sent
    \* h.mu of a CommandHandle and the tasks that take it
    mu,            \* the task that holds h.mu, "free" when none does
    lkPc,          \* where each task is: waiting for h.mu, inside it, in a callback
    lkKind,        \* the event the pump is handling
    lkWork,        \* events the stream still brings
    lkCb,          \* the handle has callbacks
    lkCanceled,    \* h.canceled
    \* the sandbox listing: the control plane's pages, a paginator, ListAll
    srvPages,      \* the pages GET /v2/sandboxes serves, in order
    pgToken,       \* p.nextToken of the user's paginator
    pgHasNext,     \* p.hasNext of the user's paginator
    pgPages,       \* what the NextItems calls on it returned, in order
    pgFetches,     \* responses it has parsed
    pgLastHeader,  \* X-Next-Token of the last of them
    pgLastErr,     \* the last NextItems call on it failed
    laPc,          \* where ListAll is
    laToken,       \* nextToken of ListAll's paginator
    laHasNext,     \* hasNext of ListAll's paginator
    laAll,         \* ListAll's all
    laRes,         \* what ListAll returned
    \* the execution of a RunCode call: its options, timers, the /execute stream
    xRunTimeout,   \* cfg.timeout of the call: NoRunTimeout when not set, else <<d>>
    xClientTimeout, \* Timeout of the sandbox's http.Client, 0 when it has none
    xLifetime,     \* cfg.timeoutMs of the sandbox, its lifetime
    xPc,           \* where the RunCode call is
    xDeadline,     \* the timeout RunCode computed, 0 when it set no deadline
    xNow,          \* seconds since the call began
    xStatus,       \* status of the /execute response, 0 while there is none
    xLines,        \* lines the server has written to the response body
    xBodyEnd,      \* "open", "eof" (body closed) or "broken" (connection lost)
    xRead,         \* lines the scanner has taken
    xParsed,       \* the stream responses handed to parseStreamResponse, in order
    execution,     \* the Execution the call builds
    xErr,          \* what doStreamRequest returned
    xAbort,        \* the timer that cut the request and when
    xRes,           \* what RunCode returned
    \* the translation of a failed envd call into an SDK error
    tIn,           \* the failure last translated: who met it and what it was
    tOut,           \* the error the SDK returned for it
    \* the Start request of Commands.start
    sStdin,        \* cfg.stdin of the call: NoStdin when no option set it, else <<enabled>>
    sVersion,      \* c.envdVersion, <<>> when it is empty
    sUser,         \* cfg.user
    sTimeout,      \* cfg.timeout
    sPc,           \* where the call is
    sReq,          \* the StartRequest sent and its headers, <<>> while none is
    sStreams,      \* number of Start streams opened
    sRes,           \* the error start returned when it could not open the stream
    \* the life of a Sandbox and the requests it sends to the control plane
    lDebug,        \* cfg.debug
    lApiKey,       \* cfg.apiKey, after the fallback to E2B_API_KEY
    lAccessToken,  \* cfg.accessToken
    lPc,           \* "init" before New or Connect, then "live" or "failed"
    lClosed,       \* s.closed
    lTimeoutMs,    \* s.config.timeoutMs
    lRequests,     \* number of requests sent to the control plane
    lLast,          \* the last call: its name, the error it returned, the requests it sent
    \* a PTY handle: the stream of Pty.Create after its Start event, the pump
    pSent,         \* events the server has emitted after the Start event, in order
    pStreamEnd,    \* the server has closed the stream
    pRcv,          \* number of events the pump has taken
    pCb,           \* cfg.onStdout is set
    pStdout,       \* h.stdout
    pOnStdout,     \* the calls of onStdout, in order
    pDone,          \* h.done is closed
    \* ---- signed file URLs (Sandbox.UploadURL, Sandbox.DownloadURL) ----
    gToken,        \* s.accessToken, "" when the sandbox has none
    gVersion,      \* s.envdVersion
    gNow,          \* time.Now().Unix()
    gCalls,         \* the URLs built so far, each with the arguments and result of getSignature
    \* ---- template builds (TemplateBuilder.Build, WaitForBuild) ----
    bEntry,        \* the call: "Build" or "WaitForBuild"
    bCred,         \* templateCfg has an API key or an access token
    bOnLogs,       \* cfg.onLogs is set
    bPc,           \* position of the call
    bPhases,       \* the phases begun so far, each with the error it returned
    bRequests,     \* the requests sent to the template API, in order
    bLog,          \* the build's log on the server
    bSrvStatus,    \* the build's status on the server
    bResp,         \* the status response in hand
    bOffset,       \* logsOffset
    bDelivered,    \* the entries given to cfg.onLogs, in invocation order
    bCancelled,    \* ctx is cancelled
    bAtCancel,     \* where the call was, and how many polls it had sent, when ctx was cancelled
    bRes,           \* what the call returned
    \* ---- the template builder (TemplateBuilder) ----
    kInstructions, \* b.instructions
    kForce,        \* b.force
    kForceNextLayer, \* b.forceNextLayer
    kSkipAt        \* the number of instructions when SkipCache was first called, if it was

srvVars == <<sent, streamEnd>>
cfgVars == <<mode, withCb, timeout>>
openVars == <<startPc, startRes, startErr, eventCount, earlyStdout, earlyStderr, pid>>
bufVars == <<stdout, stderr>>
cbVars == <<cbStdout, cbStderr>>
pumpVars == <<pumpPc, pumpEv>>
userVars == <<waitRes, waitVal, killed>>

cmdVars == <<srvVars, rcv, ctxCancelled, ctxExpired, cfgVars, openVars, bufVars, result, err,
             doneCloses, canceled, pumpVars, cbVars, userVars>>

\* The variables of the directory watch and of the sandbox.
wSrvVars == <<wQueue, wEmitted, wStreamEnd>>
wCfgVars == <<wOnEvent, wOnExit>>
wOpenVars == <<wOpenPc, wOpenRes>>
wPumpVars == <<wPumpPc, wPumpErr, onEventCalls, onExitCalls>>
wWaitVars == <<wWaitRes, eventsAtWait>>

watchVars == <<wSrvVars, wCtxCancelled, wCfgVars, wOpenVars, wErr, wDoneCloses,
               wStopped, wPumpVars, stopPc, wWaitVars>>

sbCfgVars == <<debug, apiKey>>

rcVars == <<rcPc, rcLanguage, rcContext, rcClosedAtEntry, rcRes, rcSent, rcCalls,
           executeRequests>>

sbVars == <<sbCfgVars, closed, closeCalls, killRequests, envdRequests, lastCall,
           closeRes, rcVars>>

lockVars == <<mu, lkPc, lkKind, lkWork, lkCb, lkCanceled>>

pgVars == <<pgToken, pgHasNext, pgPages, pgFetches, pgLastHeader, pgLastErr>>

laVars == <<laPc, laToken, laHasNext, laAll, laRes>>

listVars == <<srvPages, pgVars, laVars>>

execVars == <<xRunTimeout, xClientTimeout, xLifetime, xPc, xDeadline, xNow, xStatus,
              xLines, xBodyEnd, xRead, xParsed, execution, xErr, xAbort, xRes>>

errVars == <<tIn, tOut>>

reqVars == <<sStdin, sVersion, sUser, sTimeout, sPc, sReq, sStreams, sRes>>

lifeVars == <<lDebug, lApiKey, lAccessToken, lPc, lClosed, lTimeoutMs, lRequests, lLast>>

ptyVars == <<pSent, pStreamEnd, pRcv, pCb, pStdout, pOnStdout, pDone>>

sigVars == <<gToken, gVersion, gNow, gCalls>>

buildVars == <<bEntry, bCred, bOnLogs, bPc, bPhases, bRequests, bLog, bSrvStatus, bResp,
               bOffset, bDelivered, bCancelled, bAtCancel, bRes>>

tplVars == <<kInstructions, kForce, kForceNextLayer, kSkipAt>>

\* The variables of the other subsystems, which no command action changes.
notCmdVars == <<watchVars, sbVars, lockVars, listVars, execVars, errVars, reqVars,
                lifeVars, ptyVars, sigVars, buildVars, tplVars>>

\* The variables of the other subsystems, which no watch action changes.
notWatchVars == <<cmdVars, sbVars, lockVars, listVars, execVars, errVars, reqVars,
                  lifeVars, ptyVars, sigVars, buildVars, tplVars>>

\* The variables of the other subsystems, which no sandbox action changes.
notSbVars == <<cmdVars, watchVars, lockVars, listVars, execVars, errVars, reqVars,
               lifeVars, ptyVars, sigVars, buildVars, tplVars>>

\* The variables of the other subsystems, which no step on h.mu changes.
notLockVars == <<cmdVars, watchVars, sbVars, listVars, execVars, errVars, reqVars,
                 lifeVars, ptyVars, sigVars, buildVars, tplVars>>

\* The variables of the other subsystems, which no listing step changes.
notListVars == <<cmdVars, watchVars, sbVars, lockVars, execVars, errVars, reqVars,
                 lifeVars, ptyVars, sigVars, buildVars, tplVars>>

\* The variables of the other subsystems, which no step of a RunCode execution changes.
notExecVars == <<cmdVars, watchVars, sbVars, lockVars, listVars, errVars, reqVars,
                 lifeVars, ptyVars, sigVars, buildVars, tplVars>>

\* The variables of the other subsystems, which no error translation changes.
notErrVars == <<cmdVars, watchVars, sbVars, lockVars, listVars, execVars, reqVars,
                lifeVars, ptyVars, sigVars, buildVars, tplVars>>

\* The variables of the other subsystems, which no step of a Start request changes.
notReqVars == <<cmdVars, watchVars, sbVars, lockVars, listVars, execVars, errVars,
                lifeVars, ptyVars, sigVars, buildVars, tplVars>>

\* The variables of the other subsystems, which no step of a sandbox's life changes.
notLifeVars == <<cmdVars, watchVars, sbVars, lockVars, listVars, execVars, errVars,
                 reqVars, ptyVars, sigVars, buildVars, tplVars>>

\* The variables of the other subsystems, which no step of a PTY handle changes.
notPtyVars == <<cmdVars, watchVars, sbVars, lockVars, listVars, execVars, errVars,
                reqVars, lifeVars, sigVars, buildVars, tplVars>>

\* The variables of the other subsystems, which no signed-URL action changes.
notSigVars == <<cmdVars, watchVars, sbVars, lockVars, listVars, execVars, errVars,
                reqVars, lifeVars, ptyVars, buildVars, tplVars>>

\* The variables of the other subsystems, which no template-build action changes.
notBuildVars == <<cmdVars, watchVars, sbVars, lockVars, listVars, execVars, errVars,
                  reqVars, lifeVars, ptyVars, sigVars, tplVars>>

\* The variables of the other subsystems, which no template-builder action changes.
notTplVars == <<cmdVars, watchVars, sbVars, lockVars, listVars, execVars, errVars,
                reqVars, lifeVars, ptyVars, sigVars, buildVars>>

vars == <<cmdVars, watchVars, sbVars, lockVars, listVars, execVars, errVars, reqVars,
          lifeVars, ptyVars, sigVars, buildVars, tplVars>>

-----------------------------------------------------------------------------
(* Events of a process stream (processpb.ProcessEvent).  A data event       *)
(* carries one chunk; the chunk of the i-th emitted event is the one byte   *)
(* i, so that any reordering of chunks is visible in a concatenation.       *)

Ev(k, b, code) == [k |-> k, b |-> b, code |-> code]

NoEv == Ev("none", 0, 0)

StartPid == 7

ExitCodes == {0, 2}

Count(s, k) == Cardinality({i \in 1..Len(s) : s[i].k = k})

\* The events the server may emit next: one Start at most, End is the last
\* event of a process, data and keepalive events are bounded together.
ServerEvents ==
    LET n == Len(sent) + 1 IN
    IF Count(sent, "end") > 0 THEN {}
    ELSE (IF Count(sent, "start") = 0 THEN {Ev("start", StartPid, 0)} ELSE {})
         \cup (IF Count(sent, "out") + Count(sent, "err") + Count(sent, "ka") < MaxBody
               THEN {Ev("out", n, 0), Ev("err", n, 0), Ev("ka", 0, 0)} ELSE {})
         \cup {Ev("end", 0, c) : c \in ExitCodes}

\* Byte-concatenation of the chunks of kind k in s, in order.
RECURSIVE Chunks(_, _)
Chunks(s, k) ==
    IF s = <<>> THEN <<>>
    ELSE (IF Head(s).k = k THEN <<Head(s).b>> ELSE <<>>) \o Chunks(Tail(s), k)

IsPrefix(a, b) == Len(a) <= Len(b) /\ SubSeq(b, 1, Len(a)) = a

\* A *CommandResult: nil, or a pointer to a result (a one-element sequence).
NoResult == <<>>

CommandResult(out, errOut, code) ==
    <<[Stdout |-> out, Stderr |-> errOut, ExitCode |-> code,
       Error |-> IF code = 0 THEN "" ELSE "oops"]>>

\* A *CommandExitError: nil, or the error of a command that ended with a
\* non-zero exit code.
NoExitError == <<>>

\* A CommandExitError that leaves out the output.
CommandExitError_NoOutput(out, errOut, code) ==
    <<[Stdout |-> <<>>, Stderr |-> <<>>, ExitCode |-> code,
       ErrorMessage |-> IF code = 0 THEN "" ELSE "oops"]>>

CommandExitError(out, errOut, code) ==
    <<[Stdout |-> out, Stderr |-> errOut, ExitCode |-> code,
       ErrorMessage |-> IF code = 0 THEN "" ELSE "oops"]>>

-----------------------------------------------------------------------------
CmdInit(modes, cbs, timeouts) ==
    /\ sent = <<>>
    /\ streamEnd = "open"
    /\ rcv = 0
    /\ ctxCancelled = FALSE
    /\ ctxExpired = FALSE
    /\ mode \in modes
    /\ withCb \in cbs
    /\ timeout \in timeouts
    /\ startPc = "init"
    /\ startRes = "none"
    /\ startErr = NoExitError
    /\ eventCount = 0
    /\ earlyStdout = <<>>
    /\ earlyStderr = <<>>
    /\ pid = 0
    /\ stdout = <<>>
    /\ stderr = <<>>
    /\ result = NoResult
    /\ err = Nil
    /\ doneCloses = 0
    /\ canceled = FALSE
    /\ pumpPc = "none"
    /\ pumpEv = NoEv
    /\ cbStdout = <<>>
    /\ cbStderr = <<>>
    /\ waitRes = "none"
    /\ waitVal = NoResult
    /\ killed = FALSE

Stoppers == 1..NumStoppers

WatchInit(cbs) ==
    /\ wQueue = <<>>
    /\ wEmitted = 0
    /\ wStreamEnd = "open"
    /\ wCtxCancelled = FALSE
    /\ wOnEvent \in cbs
    /\ wOnExit \in cbs
    /\ wOpenPc = "init"
    /\ wOpenRes = "none"
    /\ wErr = Nil
    /\ wDoneCloses = 0
    /\ wStopped = FALSE
    /\ wPumpPc = "none"
    /\ wPumpErr = Nil
    /\ onEventCalls = 0
    /\ onExitCalls = 0
    /\ stopPc = [t \in Stoppers |-> "idle"]
    /\ wWaitRes = "none"
    /\ eventsAtWait = 0

NoCall == [facade |-> "none", method |-> "none", closedAtEntry |-> FALSE,
           res |-> "none"]

\* A Sandbox as New or Connect returns it: in debug mode, or with an API key
\* (New refuses an empty key outside debug mode).
SandboxInit(debugs, keys) ==
    /\ debug \in debugs
    /\ apiKey \in keys
    /\ debug \/ apiKey # ""
    /\ closed = FALSE
    /\ closeCalls = 0
    /\ killRequests = 0
    /\ envdRequests = 0
    /\ lastCall = NoCall
    /\ closeRes = {}
    /\ rcPc = "idle"
    /\ rcLanguage = ""
    /\ rcContext = Nil
    /\ rcClosedAtEntry = FALSE
    /\ rcRes = "none"
    /\ rcSent = FALSE
    /\ rcCalls = 0
    /\ executeRequests = 0

\* The tasks that take h.mu: the pump, start replaying the early data, and
\* a caller of Disconnect.
LockTasks == {"pump", "start", "user"}

\* A handle as newCommandHandle returns it, the pump spawned; start has
\* early data to replay or not.
LockInit(cbs, earlies) ==
    /\ mu = "free"
    /\ lkCb \in cbs
    /\ \E early \in earlies :
          lkPc = [t \in LockTasks |->
                    IF t = "pump" THEN <<"receive">>
                    ELSE IF t = "start" /\ early THEN <<"want", "append">>
                    ELSE IF t = "start" THEN <<"returned">>
                    ELSE <<"idle">>]
    /\ lkKind = "none"
    /\ lkWork = MaxBody
    /\ lkCanceled = FALSE

\* The empty string of a token: no X-Next-Token header, no next_token
\* parameter.  The token that asks for page i is <<i>>.
NoToken == <<>>

\* The pages of the listing whose page sizes are sizes, the sandboxes
\* numbered in listing order.
RECURSIVE PagesOf(_, _)
PagesOf(sizes, first) ==
    IF sizes = <<>> THEN <<>>
    ELSE <<[j \in 1..Head(sizes) |-> first + j - 1]>>
         \o PagesOf(Tail(sizes), first + Head(sizes))

\* A fresh paginator as List returns it (hasNext: true, nextToken: ""),
\* ListAll not yet called, and a control plane with npages pages.
ListInit(npages) ==
    /\ \E n \in npages : \E sizes \in [1..n -> 0..MaxPageSize] :
          srvPages = PagesOf(sizes, 1)
    /\ pgToken = NoToken
    /\ pgHasNext = TRUE
    /\ pgPages = <<>>
    /\ pgFetches = 0
    /\ pgLastHeader = NoToken
    /\ pgLastErr = FALSE
    /\ laPc = "init"
    /\ laToken = NoToken
    /\ laHasNext = TRUE
    /\ laAll = <<>>
    /\ laRes = "none"

\* Default of the code execution timeout, in seconds (src/constants.go:27).
DefaultCodeExecutionTimeout == 60

\* Default of cfg.requestTimeout, in seconds (src/constants.go:30).
DefaultRequestTimeout == 60

\* Default of cfg.timeoutMs, the sandbox lifetime, in seconds
\* (src/constants.go:24).
DefaultSandboxTimeout == 300

\* The clock advances by TickStep seconds up to MaxClock; the server writes
\* at most MaxLines lines.
TickStep == 30
MaxClock == 90
MaxLines == 2

\* cfg.timeout is a pointer: nil when no option set it.
NoRunTimeout == <<>>

\* WithRunTimeout(d) makes cfg.timeout point at d.
WithRunTimeout(d) == <<d>>

RunTimeouts ==
    {NoRunTimeout, WithRunTimeout(0), WithRunTimeout(TickStep), WithRunTimeout(MaxClock)}

\* The http.Client New builds has Timeout cfg.requestTimeout; a client the
\* user supplied (WithHTTPClient) may have none.
ClientTimeouts == {0, DefaultRequestTimeout}

Lifetimes == {TickStep, DefaultSandboxTimeout}

\* A line of the response body: a JSON object that decodes into a
\* streamResponse, text that is no JSON, or the empty line.
JSONLine(type, text, name, value, traceback) ==
    [kind |-> "json", type |-> type, text |-> text, name |-> name,
     value |-> value, traceback |-> traceback]

GarbageLine == [kind |-> "garbage", type |-> "", text |-> "", name |-> "",
                value |-> "", traceback |-> ""]

EmptyLine == [kind |-> "empty", type |-> "", text |-> "", name |-> "",
              value |-> "", traceback |-> ""]

StreamLines ==
    {JSONLine("stdout", "a", "", "", ""), JSONLine("stdout", "b", "", "", ""),
     JSONLine("stderr", "c", "", "", ""), JSONLine("result", "r", "", "", ""),
     JSONLine("error", "", "NameError", "x is not defined", "line 1"),
     GarbageLine, EmptyLine}

\* json.Unmarshal of a line into a streamResponse: <<sr>>, or <<>> when it
\* fails.
Unmarshal(line) ==
    IF line.kind = "json"
    THEN <<[type |-> line.type, text |-> line.text, name |-> line.name,
            value |-> line.value, traceback |-> line.traceback]>>
    ELSE <<>>

\* execution.Error when no error event came.
NoExecutionError == <<>>

\* The Execution RunCode initializes: no results, empty logs, no error.
NewExecution ==
    [results |-> <<>>, stdout |-> <<>>, stderr |-> <<>>, error |-> NoExecutionError]

\* A parseStreamResponse that puts the stream's text in front of the log
\* instead of behind it.
parseStreamResponse_InFront(sr, ex) ==
    CASE sr.type = "result" -> [ex EXCEPT !.results = Append(@, sr.text)]
      [] sr.type = "stdout" -> [ex EXCEPT !.stdout = <<sr.text>> \o @]
      [] sr.type = "stderr" -> [ex EXCEPT !.stderr = <<sr.text>> \o @]
      [] sr.type = "error" ->
            [ex EXCEPT !.error = <<[name |-> sr.name, value |-> sr.value,
                                    traceback |-> sr.traceback]>>]
      [] OTHER -> ex

\* parseStreamResponse: the Execution after the stream response sr.  It
\* never fails.
parseStreamResponse(sr, ex) ==
    CASE sr.type = "result" -> [ex EXCEPT !.results = Append(@, sr.text)]
      [] sr.type = "stdout" -> [ex EXCEPT !.stdout = Append(@, sr.text)]
      [] sr.type = "stderr" -> [ex EXCEPT !.stderr = Append(@, sr.text)]
      [] sr.type = "error" ->
            [ex EXCEPT !.error = <<[name |-> sr.name, value |-> sr.value,
                                    traceback |-> sr.traceback]>>]
      [] OTHER -> ex

\* An error value: the sentinel it wraps ("none" when it wraps none), its
\* kind, the HTTP status it carries (0 when none), its message.
Error(is, kind, status, message) ==
    [is |-> is, kind |-> kind, status |-> status, message |-> message]

NoErr == Error("none", "nil", 0, <<>>)

\* formatHTTPError: the SandboxError of a response that is not 200.
formatHTTPError(statusCode, body) ==
    CASE statusCode = 404 -> Error("ErrNotFound", "SandboxError", statusCode, <<body>>)
      [] statusCode = 502 ->
            Error("ErrTimeout", "SandboxError", statusCode,
                  <<body, ": This error is likely due to sandbox timeout.">>)
      [] OTHER -> Error("none", "SandboxError", statusCode, <<body>>)

\* NewExecutionTimeoutError and NewRequestTimeoutError: a TimeoutError is
\* ErrTimeout when its type is "execution", ErrRequestTimeout when "request".
NewExecutionTimeoutError == Error("ErrTimeout", "TimeoutError(execution)", 0, <<>>)

NewRequestTimeoutError == Error("ErrRequestTimeout", "TimeoutError(request)", 0, <<>>)

\* A parseStreamResponse that fails on an error event.
parseStreamResponseError_OnErrorEvent(sr) ==
    IF sr.type = "error" THEN Error("none", "execution error", 0, <<sr.value>>) ELSE NoErr

\* The error parseStreamResponse returns for sr: always nil.
parseStreamResponseError(sr) == NoErr

\* The statuses the /execute endpoint answers with.
Statuses == {200, 400, 401, 404, 429, 500, 502, 507}

NoAbort == [by |-> "none", at |-> 0]

NoReturn == [execution |-> <<>>, err |-> Error("none", "pending", 0, <<>>)]

\* A RunCode call past its validation, with its options, on a sandbox with
\* its http.Client and lifetime.
ExecInit(runTimeouts, clientTimeouts, lifetimes) ==
    /\ xRunTimeout \in runTimeouts
    /\ xClientTimeout \in clientTimeouts
    /\ xLifetime \in lifetimes
    /\ xPc = "called"
    /\ xDeadline = 0
    /\ xNow = 0
    /\ xStatus = 0
    /\ xLines = <<>>
    /\ xBodyEnd = "open"
    /\ xRead = 0
    /\ xParsed = <<>>
    /\ execution = NewExecution
    /\ xErr = NoErr
    /\ xAbort = NoAbort
    /\ xRes = NoReturn

\* The codes of a connect.Error.
ConnectCodes ==
    {"canceled", "unknown", "invalid_argument", "deadline_exceeded", "not_found",
     "already_exists", "permission_denied", "resource_exhausted", "failed_precondition",
     "aborted", "out_of_range", "unimplemented", "internal", "unavailable", "data_loss",
     "unauthenticated"}

\* The error of a failed RPC: a connect.Error with its code and message, or
\* another error (connect FALSE).
RPCErrors ==
    [connect : {TRUE}, code : ConnectCodes, message : {"m1", "m2"}]
    \cup [connect : {FALSE}, code : {"none"}, message : {"m1", "m2"}]

\* The body of an HTTP error response: a JSON object with a message field
\* (possibly empty) or other text.
HTTPBodies ==
    [json : {TRUE}, message : {"", "no such file"}, raw : {"{...}"}]
    \cup [json : {FALSE}, message : {""}, raw : {"plain text"}]

\* The statuses an HTTP call to the sandbox fails with.
FailureStatuses == {400, 401, 404, 429, 500, 502, 507}

\* Who met the failure.
NoFailure ==
    [via |-> "none", expired |-> FALSE, rpc |-> [connect |-> FALSE, code |-> "none",
                                               message |-> ""],
     status |-> 0, body |-> [json |-> FALSE, message |-> "", raw |-> ""]]

RPCFailure(via, expired, e) ==
    [NoFailure EXCEPT !.via = via, !.expired = expired, !.rpc = e]

HTTPFailure(via, status, body) ==
    [NoFailure EXCEPT !.via = via, !.status = status, !.body = body]

\* Commands.wrapRPCError: the request-timeout error when the call's context
\* has expired; else by the code of a connect.Error; else the error itself.
CommandsWrapRPCError(expired, e) ==
    IF expired THEN NewRequestTimeoutError
    ELSE IF e.connect
    THEN CASE e.code = "not_found" -> Error("ErrNotFound", "wrapped", 0, <<e.message>>)
           [] e.code = "invalid_argument" ->
                 Error("ErrInvalidArgument", "wrapped", 0, <<e.message>>)
           [] e.code = "deadline_exceeded" -> NewRequestTimeoutError
           [] e.code = "unavailable" ->
                 Error("none", "sandbox unavailable", 0, <<e.message>>)
           [] OTHER -> Error("none", "RPC error", 0, <<e.code, e.message>>)
    ELSE Error("none", "unwrapped", 0, <<e.message>>)

\* Filesystem.wrapRPCError: the same translation, in the filesystem facade.
FilesystemWrapRPCError(expired, e) ==
    IF expired THEN NewRequestTimeoutError
    ELSE IF e.connect
    THEN CASE e.code = "not_found" -> Error("ErrNotFound", "wrapped", 0, <<e.message>>)
           [] e.code = "invalid_argument" ->
                 Error("ErrInvalidArgument", "wrapped", 0, <<e.message>>)
           [] e.code = "deadline_exceeded" -> NewRequestTimeoutError
           [] e.code = "unavailable" ->
                 Error("none", "sandbox unavailable", 0, <<e.message>>)
           [] OTHER -> Error("none", "RPC error", 0, <<e.code, e.message>>)
    ELSE Error("none", "unwrapped", 0, <<e.message>>)

\* The message handleHTTPError reports: the message field of a JSON body,
\* the whole body when there is none or it is empty.
HTTPMessage(body) ==
    IF body.json /\ body.message # "" THEN body.message ELSE body.raw

\* Filesystem.handleHTTPError: the error of a failed HTTP call of the
\* filesystem facade, by its status.
handleHTTPError(statusCode, body) ==
    CASE statusCode = 400 ->
            Error("ErrInvalidArgument", "wrapped", 0, <<HTTPMessage(body)>>)
      [] statusCode = 401 ->
            Error("none", "authentication error", 0, <<HTTPMessage(body)>>)
      [] statusCode = 404 -> Error("ErrNotFound", "wrapped", 0, <<HTTPMessage(body)>>)
      [] statusCode = 429 -> Error("none", "rate limited", 0, <<HTTPMessage(body)>>)
      [] statusCode = 502 -> NewRequestTimeoutError
      [] statusCode = 507 ->
            Error("none", "not enough disk space", 0, <<HTTPMessage(body)>>)
      [] OTHER -> Error("none", "HTTP error", statusCode, <<HTTPMessage(body)>>)

\* No call has failed yet.
ErrInit ==
    /\ tIn = NoFailure
    /\ tOut = NoErr

\* Versions of envd, parsed: <<major, minor, patch>>; <<>> is the empty
\* version string.
EmptyVersion == <<>>

EnvdVersionDefaultUser == <<0, 4, 0>>

EnvdVersionCommandsStdin == <<0, 3, 0>>

EnvdDebugFallback == <<99, 99, 99>>

EnvdVersions ==
    {EmptyVersion, <<0, 2, 9>>, EnvdVersionCommandsStdin, EnvdVersionDefaultUser,
     EnvdDebugFallback}

\* semver.Compare of two versions: -1, 0 or 1; the empty version is
\* invalid and less than any valid one.
RECURSIVE CompareParts(_, _)
CompareParts(v1, v2) ==
    IF v1 = <<>> THEN 0
    ELSE IF Head(v1) < Head(v2) THEN -1
    ELSE IF Head(v1) > Head(v2) THEN 1
    ELSE CompareParts(Tail(v1), Tail(v2))

\* Commands.compareVersion: c.envdVersion against version.
compareVersion(envdVersion, version) ==
    IF envdVersion = EmptyVersion THEN -1 ELSE CompareParts(envdVersion, version)

\* cfg.stdin when no option set it.
NoStdin == <<>>

\* WithStdin(enabled) sets cfg.stdin.
WithStdin(enabled) == <<enabled>>

\* A call of Commands.start with its options, on a sandbox whose envd has
\* the given version.
ReqInit(stdins, versions, users, timeouts) ==
    /\ sStdin \in stdins
    /\ sVersion \in versions
    /\ sUser \in users
    /\ sTimeout \in timeouts
    /\ sPc = "called"
    /\ sReq = <<>>
    /\ sStreams = 0
    /\ sRes = NoErr

\* A sandbox sends at most MaxApiRequests requests to the control plane.
MaxApiRequests == 3

NoOp == [op |-> "none", err |-> NoErr, requests |-> 0]

\* The options of New or Connect, before the call.
LifeInit(debugs, keys, tokens) ==
    /\ lDebug \in debugs
    /\ lApiKey \in keys
    /\ lAccessToken \in tokens
    /\ lPc = "init"
    /\ lClosed = FALSE
    /\ lTimeoutMs = DefaultSandboxTimeout
    /\ lRequests = 0
    /\ lLast = NoOp

\* The server emits at most MaxPtyEvents events on a PTY stream.
MaxPtyEvents == 3

\* A PTY handle as Pty.Create returns it, the Start event received and the
\* pump spawned.
PtyInit(cbs) ==
    /\ pSent = <<>>
    /\ pStreamEnd = FALSE
    /\ pRcv = 0
    /\ pCb \in cbs
    /\ pStdout = <<>>
    /\ pOnStdout = <<>>
    /\ pDone = FALSE

\* At most MaxSigCalls URLs are built on one sandbox, while the clock
\* (time.Now().Unix()) advances from 1 to at most MaxSigClock.
MaxSigCalls == 2
MaxSigClock == 2

\* What WithSignatureExpiration sets cfg.signatureExpiration to, in seconds;
\* 0 when the option is absent.
SignatureExpirations == {0, 60}

SigPaths == {"/a", "/b"}

SigUsers == {"", "u"}

\* sha256.Sum256 followed by base64.StdEncoding and the trimming of "=":
\* a digest names the string it was computed from, so that two digests are
\* equal exactly when their inputs are.
Sha256NoPad(raw) == <<"b64", "sha256", raw>>

\* getSignature without the guard on expirationSeconds: the expiration is
\* always now + expirationSeconds.
getSignature_AlwaysStamped(path, operation, user, accessToken, expirationSeconds, now) ==
    LET expiration == now + expirationSeconds
        raw == path \o ":" \o operation \o ":" \o user \o ":" \o accessToken
               \o ":" \o ToString(expiration)
    IN [sig |-> <<"v1_", Sha256NoPad(raw)>>, exp |-> expiration]

\* getSignature, called when time.Now().Unix() is now: the signature string
\* and the expiration timestamp (0: no expiration).
getSignature(path, operation, user, accessToken, expirationSeconds, now) ==
    LET expiration == IF expirationSeconds > 0 THEN now + expirationSeconds ELSE 0
        raw == IF expiration = 0
               THEN path \o ":" \o operation \o ":" \o user \o ":" \o accessToken
               ELSE path \o ":" \o operation \o ":" \o user \o ":" \o accessToken
                    \o ":" \o ToString(expiration)
    IN [sig |-> <<"v1_", Sha256NoPad(raw)>>, exp |-> expiration]

\* Sandbox.fileURL: the query parameters of the /files URL; scheme and host
\* are the same for every URL of one sandbox.
fileURL(path, username) ==
    (IF path # "" THEN [p \in {"path"} |-> path] ELSE <<>>)
    @@ (IF username # "" THEN [p \in {"username"} |-> username] ELSE <<>>)

\* A connected sandbox with its envd access token and envd version, no URL
\* built yet.
SigInit(tokens, versions) ==
    /\ gToken \in tokens
    /\ gVersion \in versions
    /\ gNow = 1
    /\ gCalls = <<>>

\* The build server writes at most MaxLogEntries log entries, and
\* WaitForBuild polls the build status at most MaxPolls times.
MaxLogEntries == 2
MaxPolls == 3

\* The phases of TemplateBuilder.Build, in the order of its body.
BuildPhases == <<"RequestBuild", "TriggerBuild", "WaitForBuild">>

\* A phase that has not returned yet.
Running == Error("none", "running", 0, <<>>)

\* How an HTTP exchange of the template API can go: a response the call
\* accepts, a transport error, a status the call rejects, or a body that
\* does not parse.
HTTPOutcomes == {"ok", "transport", "status", "parse"}

\* ctx has not been cancelled.
NotCancelled == [pc |-> "none", polls |-> 0]

\* The case <-ctx.Done() of a select that is never taken.
CtxDone_Never(cancelled) == FALSE

\* The case <-ctx.Done() of the select at the head of the polling loop.
CtxDone(cancelled) == cancelled

\* No status response in hand.
NoResponse == [entries |-> <<>>, status |-> "none", reason |-> Nil]

\* ctx.Err() of a cancelled context.
ContextCanceled == Error("context.Canceled", "context.Canceled", 0, <<>>)

\* The error of the credential check that opens every template call.
CredentialsRequired ==
    Error("ErrInvalidArgument", "wrapError", 0, <<"API key or access token is required">>)

\* httpClient.Do failed: the cause is wrapped with %w.
SendFailed(cause) == Error(cause, "wrapError", 0, <<"failed to send request">>)

\* The error of an exchange that went as outcome says; NoErr for "ok".
ExchangeError(outcome) ==
    CASE outcome = "ok" -> NoErr
      [] outcome = "transport" -> SendFailed("none")
      [] outcome = "status" -> Error("none", "errorString", 500, <<"API error">>)
      [] outcome = "parse" -> Error("none", "wrapError", 0, <<"failed to parse response">>)

\* The error of one template call before any exchange: the credential
\* check, then httpClient.Do on a context that is already cancelled.
CallError(cred, cancelled, outcome) ==
    IF ~cred THEN CredentialsRequired
    ELSE IF cancelled THEN SendFailed("context.Canceled")
    ELSE ExchangeError(outcome)

\* Build after a phase returned e, ignoring e.
BuildAfter_IgnoreError(next, e) == next

\* Build after a phase returned e: it returns e, or goes on to next.
BuildAfter(next, e) == IF e # NoErr THEN "returned" ELSE next

\* logsOffset left as it was after a poll.
NextLogsOffset_Unchanged(logsOffset, entries) == logsOffset

\* logsOffset += len(status.LogEntries)
NextLogsOffset(logsOffset, entries) == logsOffset + Len(entries)

\* The statuses on which waitForBuildInternal goes on polling.
StatusContinues(status) == status \in {"building", "waiting"}

\* The error waitForBuildInternal returns on any other status, once its
\* entries are replayed: NoErr for ready.
StatusVerdict(status, reason) ==
    CASE status = "ready" -> NoErr
      [] status = "error" ->
            Error("none", "errorString", 0,
                  <<"template build failed: ", IF reason = Nil THEN "build failed" ELSE reason>>)
      [] OTHER -> Error("none", "errorString", 0, <<"unknown build status: ", status>>)

\* A call of Build or of WaitForBuild, with or without credentials and a
\* log callback, on a build the server has not started.
BuildInit(entries, creds, onLogs) ==
    /\ bEntry \in entries
    /\ bCred \in creds
    /\ bOnLogs \in onLogs
    /\ bPc = IF bEntry = "Build" THEN "RequestBuild" ELSE "top"
    /\ bPhases = IF bEntry = "Build" THEN <<>>
                 ELSE <<[name |-> "WaitForBuild", err |-> Running]>>
    /\ bRequests = <<>>
    /\ bLog = <<>>
    /\ bSrvStatus = "waiting"
    /\ bResp = NoResponse
    /\ bOffset = 0
    /\ bDelivered = <<>>
    /\ bCancelled = FALSE
    /\ bAtCancel = NotCancelled
    /\ bRes = NoReturn

\* A template is given at most MaxSteps instructions.
MaxSteps == 3

\* TemplateStep, without its arguments.
TemplateStep(type, force) == [Type |-> type, Force |-> force]

\* NewTemplate: no instruction, nothing forced, SkipCache not called.
TplInit ==
    /\ kInstructions = <<>>
    /\ kForce = FALSE
    /\ kForceNextLayer = FALSE
    /\ kSkipAt = <<>>

\* Each specification starts its own subsystem in every configuration and
\* the other subsystems in one.
InitCmd ==
    CmdInit({"start", "connect"}, BOOLEAN, {0, DefaultCommandTimeout}) /\ WatchInit({TRUE})
    /\ SandboxInit({FALSE}, {"key"}) /\ LockInit({TRUE}, {TRUE}) /\ ListInit({0})
    /\ ExecInit({NoRunTimeout}, {DefaultRequestTimeout}, {DefaultSandboxTimeout})
    /\ ErrInit
    /\ ReqInit({NoStdin}, {EnvdDebugFallback}, {""}, {DefaultCommandTimeout})
    /\ LifeInit({FALSE}, {"key"}, {""})
    /\ PtyInit({TRUE})
    /\ SigInit({"T"}, {EnvdDebugFallback})
    /\ BuildInit({"Build"}, {TRUE}, {TRUE})
    /\ TplInit

InitWatch ==
    CmdInit({"start"}, {TRUE}, {0}) /\ WatchInit(BOOLEAN) /\ SandboxInit({FALSE}, {"key"})
    /\ LockInit({TRUE}, {TRUE}) /\ ListInit({0})
    /\ ExecInit({NoRunTimeout}, {DefaultRequestTimeout}, {DefaultSandboxTimeout})
    /\ ErrInit
    /\ ReqInit({NoStdin}, {EnvdDebugFallback}, {""}, {DefaultCommandTimeout})
    /\ LifeInit({FALSE}, {"key"}, {""})
    /\ PtyInit({TRUE})
    /\ SigInit({"T"}, {EnvdDebugFallback})
    /\ BuildInit({"Build"}, {TRUE}, {TRUE})
    /\ TplInit

InitSandbox ==
    CmdInit({"start"}, {TRUE}, {0}) /\ WatchInit({TRUE})
    /\ SandboxInit(BOOLEAN, {"", "key"}) /\ LockInit({TRUE}, {TRUE}) /\ ListInit({0})
    /\ ExecInit({NoRunTimeout}, {DefaultRequestTimeout}, {DefaultSandboxTimeout})
    /\ ErrInit
    /\ ReqInit({NoStdin}, {EnvdDebugFallback}, {""}, {DefaultCommandTimeout})
    /\ LifeInit({FALSE}, {"key"}, {""})
    /\ PtyInit({TRUE})
    /\ SigInit({"T"}, {EnvdDebugFallback})
    /\ BuildInit({"Build"}, {TRUE}, {TRUE})
    /\ TplInit

-----------------------------------------------------------------------------
(* The server side of the stream.                                           *)

ServerEmit ==
    /\ startPc # "init"
    /\ streamEnd = "open"
    /\ Len(sent) - rcv < MaxInFlight
    /\ \E e \in ServerEvents : sent' = Append(sent, e)
    /\ UNCHANGED <<streamEnd, rcv, ctxCancelled, ctxExpired, cfgVars, openVars, bufVars, result,
                   err, doneCloses, canceled, pumpVars, cbVars, userVars, notCmdVars>>

ServerClose ==
    /\ startPc # "init"
    /\ streamEnd = "open"
    /\ streamEnd' \in {"eof", "err"}
    /\ UNCHANGED <<sent, rcv, ctxCancelled, ctxExpired, cfgVars, openVars, bufVars, result,
                   err, doneCloses, canceled, pumpVars, cbVars, userVars, notCmdVars>>

\* stream.Receive() can return the next event.
CanReceive == rcv < Len(sent)

\* The values stream.Err() can have when stream.Receive() returns false: the
\* stream is drained and was closed by the server (cleanly or with an
\* error), or its context is done (cancelled, or past its deadline).  Empty
\* when Receive blocks.
FailErrs ==
    (IF rcv = Len(sent) /\ streamEnd = "eof" THEN {Nil} ELSE {})
    \cup (IF rcv = Len(sent) /\ streamEnd = "err" THEN {"streamErr"} ELSE {})
    \cup (IF ctxCancelled THEN {"canceled"} ELSE {})
    \cup (IF ctxExpired THEN {"deadlineExceeded"} ELSE {})

\* The deadline of context.WithTimeout(ctx, cfg.timeout) passes.
StreamDeadline ==
    /\ timeout > 0
    /\ startPc # "init"
    /\ ~ctxExpired
    /\ ~ctxCancelled
    /\ ctxExpired' = TRUE
    /\ UNCHANGED <<srvVars, rcv, ctxCancelled, cfgVars, openVars, bufVars, result,
                   err, doneCloses, canceled, pumpVars, cbVars, userVars, notCmdVars>>

-----------------------------------------------------------------------------
(* Commands.start and Commands.Connect, on the caller's task.               *)

\* c.rpcClient.Start / c.rpcClient.Connect: the stream opens, or the call
\* fails, the context is cancelled and the error is returned.
OpenStream ==
    /\ startPc = "init"
    /\ \/ /\ startPc' = "loop"
          /\ UNCHANGED <<startRes, startErr, ctxCancelled>>
       \/ /\ startPc' = "returned"
          /\ startRes' = "rpcError"
          /\ startErr' = startErr
          /\ ctxCancelled' = TRUE
    /\ UNCHANGED <<srvVars, rcv, cfgVars, eventCount, earlyStdout, earlyStderr, pid,
                   bufVars, result, err, doneCloses, canceled, pumpVars, cbVars,
                   userVars, ctxExpired, notCmdVars>>

\* Where start continues after newCommandHandle: the replay of the early
\* data, stdout first, then stderr; a callback only if one was given.
AfterSpawn(out, errOut) ==
    IF Len(out) > 0 THEN "appendStdout"
    ELSE IF Len(errOut) > 0 THEN "appendStderr" ELSE "returned"

AfterAppendStdout ==
    IF withCb THEN "onStdout"
    ELSE IF Len(earlyStderr) > 0 THEN "appendStderr" ELSE "returned"

AfterOnStdout == IF Len(earlyStderr) > 0 THEN "appendStderr" ELSE "returned"

AfterAppendStderr == IF withCb THEN "onStderr" ELSE "returned"

\* A synthesized handle whose done is left open.
SynthHandle_DoneOpen(res) ==
    /\ startPc' = "returned"
    /\ startRes' = "synth"
    /\ startErr' = startErr
    /\ result' = res
    /\ UNCHANGED <<pid, pumpVars, doneCloses>>

\* A handle that is already done (start, the two "dummy handle" places).
SynthHandle(res) ==
    /\ startPc' = "returned"
    /\ startRes' = "synth"
    /\ startErr' = startErr
    /\ result' = res
    /\ doneCloses' = doneCloses + 1
    /\ UNCHANGED <<pid, pumpVars>>

\* One iteration of start's loop in which Receive returns an event.
StartReceive ==
    /\ mode = "start"
    /\ startPc = "loop"
    /\ eventCount < maxEvents
    /\ CanReceive
    /\ LET e == sent[rcv + 1] IN
       /\ rcv' = rcv + 1
       /\ eventCount' = eventCount + 1
       /\ CASE e.k = "start" ->
                 \* break, then the check after the loop, then newCommandHandle
                 IF eventCount + 1 >= maxEvents
                 THEN /\ ctxCancelled' = TRUE
                      /\ startPc' = "returned"
                      /\ startRes' = "error"
                      /\ startErr' = startErr
                      /\ pid' = e.b
                      /\ UNCHANGED <<earlyStdout, earlyStderr, result, doneCloses,
                                     pumpVars>>
                 ELSE /\ pid' = e.b
                      /\ pumpPc' = "receive"
                      /\ startPc' = AfterSpawn(earlyStdout, earlyStderr)
                      /\ startRes' = IF AfterSpawn(earlyStdout, earlyStderr) = "returned"
                                     THEN "handle" ELSE startRes
                      /\ startErr' = startErr
                      /\ UNCHANGED <<ctxCancelled, earlyStdout, earlyStderr, result,
                                     doneCloses, pumpEv>>
            [] e.k = "out" ->
                 /\ earlyStdout' = Append(earlyStdout, e.b)
                 /\ UNCHANGED <<ctxCancelled, startPc, startRes, startErr, earlyStderr, pid,
                                result, doneCloses, pumpVars>>
            [] e.k = "err" ->
                 /\ earlyStderr' = Append(earlyStderr, e.b)
                 /\ UNCHANGED <<ctxCancelled, startPc, startRes, startErr, earlyStdout, pid,
                                result, doneCloses, pumpVars>>
            [] e.k = "end" ->
                 /\ ctxCancelled' = TRUE
                 /\ IF e.code # 0
                    THEN /\ startPc' = "returned"
                         /\ startRes' = "exitError"
                         /\ startErr' = CommandExitError(earlyStdout, earlyStderr, e.code)
                         /\ UNCHANGED <<pid, result, doneCloses, pumpVars>>
                    ELSE SynthHandle(CommandResult(earlyStdout, earlyStderr, e.code))
                 /\ UNCHANGED <<earlyStdout, earlyStderr>>
            [] OTHER ->
                 \* keepalive: ignored
                 UNCHANGED <<ctxCancelled, startPc, startRes, startErr, earlyStdout,
                             earlyStderr, pid, result, doneCloses, pumpVars>>
    /\ UNCHANGED <<srvVars, cfgVars, bufVars, err, canceled, cbVars, userVars,
                   ctxExpired, notCmdVars>>

\* The iteration of start's loop in which Receive returns false.
StartStreamEnded ==
    /\ mode = "start"
    /\ startPc = "loop"
    /\ eventCount < maxEvents
    /\ FailErrs # {}
    /\ ctxCancelled' = TRUE
    /\ IF eventCount > 0 /\ (Len(earlyStdout) > 0 \/ Len(earlyStderr) > 0)
       THEN SynthHandle(CommandResult(earlyStdout, earlyStderr, 0))
       ELSE /\ startPc' = "returned"
            /\ startRes' = "error"
            /\ startErr' = startErr
            /\ UNCHANGED <<pid, result, doneCloses, pumpVars>>
    /\ UNCHANGED <<srvVars, rcv, cfgVars, eventCount, earlyStdout, earlyStderr,
                   bufVars, err, canceled, cbVars, userVars, ctxExpired, notCmdVars>>

\* handle.appendStdout(string(earlyStdout))
StartAppendStdout ==
    /\ startPc = "appendStdout"
    /\ stdout' = stdout \o earlyStdout
    /\ startPc' = AfterAppendStdout
    /\ startRes' = IF AfterAppendStdout = "returned" THEN "handle" ELSE startRes
    /\ startErr' = startErr
    /\ UNCHANGED <<srvVars, rcv, ctxCancelled, ctxExpired, cfgVars, eventCount, earlyStdout,
                   earlyStderr, pid, stderr, result, err, doneCloses, canceled,
                   pumpVars, cbVars, userVars, notCmdVars>>

\* cfg.onStdout(string(earlyStdout))
StartOnStdout ==
    /\ startPc = "onStdout"
    /\ cbStdout' = cbStdout \o earlyStdout
    /\ startPc' = AfterOnStdout
    /\ startRes' = IF AfterOnStdout = "returned" THEN "handle" ELSE startRes
    /\ startErr' = startErr
    /\ UNCHANGED <<srvVars, rcv, ctxCancelled, ctxExpired, cfgVars, eventCount, earlyStdout,
                   earlyStderr, pid, bufVars, result, err, doneCloses, canceled,
                   pumpVars, cbStderr, userVars, notCmdVars>>

\* handle.appendStderr(string(earlyStderr))
StartAppendStderr ==
    /\ startPc = "appendStderr"
    /\ stderr' = stderr \o earlyStderr
    /\ startPc' = AfterAppendStderr
    /\ startRes' = IF AfterAppendStderr = "returned" THEN "handle" ELSE startRes
    /\ startErr' = startErr
    /\ UNCHANGED <<srvVars, rcv, ctxCancelled, ctxExpired, cfgVars, eventCount, earlyStdout,
                   earlyStderr, pid, stdout, result, err, doneCloses, canceled,
                   pumpVars, cbVars, userVars, notCmdVars>>

\* cfg.onStderr(string(earlyStderr)); return handle, nil
StartOnStderr ==
    /\ startPc = "onStderr"
    /\ cbStderr' = cbStderr \o earlyStderr
    /\ startPc' = "returned"
    /\ startRes' = "handle"
    /\ startErr' = startErr
    /\ UNCHANGED <<srvVars, rcv, ctxCancelled, ctxExpired, cfgVars, eventCount, earlyStdout,
                   earlyStderr, pid, bufVars, result, err, doneCloses, canceled,
                   pumpVars, cbStdout, userVars, notCmdVars>>

\* Commands.Connect after the stream opened: the first Receive, which must
\* bring a Start event.
ConnectFirstEvent ==
    /\ mode = "connect"
    /\ startPc = "loop"
    /\ \/ /\ CanReceive
          /\ rcv' = rcv + 1
          /\ IF sent[rcv + 1].k = "start"
             THEN /\ pid' = sent[rcv + 1].b
                  /\ pumpPc' = "receive"
                  /\ startRes' = "handle"
                  /\ startErr' = startErr
                  /\ UNCHANGED <<ctxCancelled, pumpEv>>
             ELSE /\ ctxCancelled' = TRUE
                  /\ startRes' = "error"
                  /\ startErr' = startErr
                  /\ UNCHANGED <<pid, pumpVars>>
       \/ /\ FailErrs # {}
          /\ ctxCancelled' = TRUE
          /\ startRes' = "error"
          /\ startErr' = startErr
          /\ UNCHANGED <<rcv, pid, pumpVars>>
    /\ startPc' = "returned"
    /\ UNCHANGED <<srvVars, cfgVars, eventCount, earlyStdout, earlyStderr, bufVars,
                   result, err, doneCloses, canceled, cbVars, userVars, ctxExpired, notCmdVars>>

-----------------------------------------------------------------------------
(* The pump: CommandHandle.processStartEvents / processConnectEvents.       *)

\* for stream.Receive() { ... }: the next event and the check of h.canceled
\* under the lock (a disconnected handle makes the pump return), or the end
\* of the loop with what stream.Err() will say (kept in pumpEv.k).  With the
\* context done and an event still buffered, either can happen.
PumpReceive ==
    /\ pumpPc = "receive"
    /\ \/ /\ CanReceive
          /\ pumpEv' = sent[rcv + 1]
          /\ rcv' = rcv + 1
          /\ pumpPc' = IF canceled THEN "closeDone" ELSE "handleEvent"
       \/ /\ \E e \in FailErrs : pumpEv' = Ev(e, 0, 0)
          /\ pumpPc' = "afterLoop"
          /\ UNCHANGED rcv
    /\ UNCHANGED <<srvVars, ctxCancelled, ctxExpired, cfgVars, openVars, bufVars, result, err,
                   doneCloses, canceled, cbVars, userVars, notCmdVars>>

\* handleEndEvent: the result is built from the buffers as they are now.
handleEndEvent(code) == result' = CommandResult(stdout, stderr, code)

\* h.handleEvent(event): the part done under the handle's lock.
handleEvent ==
    /\ pumpPc = "handleEvent"
    /\ pumpEv' = IF pumpEv.k \in {"out", "err"} /\ withCb THEN pumpEv ELSE NoEv
    /\ CASE pumpEv.k = "out" ->
              /\ stdout' = Append(stdout, pumpEv.b)
              /\ pumpPc' = IF withCb THEN "onStdout" ELSE "receive"
              /\ UNCHANGED <<stderr, result>>
         [] pumpEv.k = "err" ->
              /\ stderr' = Append(stderr, pumpEv.b)
              /\ pumpPc' = IF withCb THEN "onStderr" ELSE "receive"
              /\ UNCHANGED <<stdout, result>>
         [] pumpEv.k = "end" ->
              /\ handleEndEvent(pumpEv.code)
              /\ pumpPc' = "receive"
              /\ UNCHANGED bufVars
         [] OTHER ->
              \* Start and Keepalive events are ignored
              /\ pumpPc' = "receive"
              /\ UNCHANGED <<bufVars, result>>
    /\ UNCHANGED <<srvVars, rcv, ctxCancelled, ctxExpired, cfgVars, openVars, err, doneCloses,
                   canceled, cbVars, userVars, notCmdVars>>

\* handleDataEvent: callback(out), after the lock was released.
PumpCallback ==
    /\ \/ /\ pumpPc = "onStdout"
          /\ cbStdout' = Append(cbStdout, pumpEv.b)
          /\ UNCHANGED cbStderr
       \/ /\ pumpPc = "onStderr"
          /\ cbStderr' = Append(cbStderr, pumpEv.b)
          /\ UNCHANGED cbStdout
    /\ pumpPc' = "receive"
    /\ pumpEv' = NoEv
    /\ UNCHANGED <<srvVars, rcv, ctxCancelled, ctxExpired, cfgVars, openVars, bufVars, result,
                   err, doneCloses, canceled, userVars, notCmdVars>>

\* if err := stream.Err(); err != nil { if h.err == nil { h.err = err } }
PumpAfterLoop ==
    /\ pumpPc = "afterLoop"
    /\ err' = IF pumpEv.k # Nil /\ err = Nil THEN pumpEv.k ELSE err
    /\ pumpPc' = "closeDone"
    /\ UNCHANGED <<srvVars, rcv, ctxCancelled, ctxExpired, cfgVars, openVars, bufVars, result,
                   doneCloses, canceled, pumpEv, cbVars, userVars, notCmdVars>>

\* A pump that returns without the deferred close(h.done).
PumpCloseDone_NoClose ==
    /\ pumpPc = "closeDone"
    /\ pumpPc' = "exited"
    /\ UNCHANGED <<srvVars, rcv, ctxCancelled, ctxExpired, cfgVars, openVars, bufVars,
                   result, err, doneCloses, canceled, pumpEv, cbVars, userVars,
                   notCmdVars>>

\* defer close(h.done)
PumpCloseDone ==
    /\ pumpPc = "closeDone"
    /\ doneCloses' = doneCloses + 1
    /\ pumpPc' = "exited"
    /\ UNCHANGED <<srvVars, rcv, ctxCancelled, ctxExpired, cfgVars, openVars, bufVars, result,
                   err, canceled, pumpEv, cbVars, userVars, notCmdVars>>

-----------------------------------------------------------------------------
(* The user's calls on the handle that start or Connect returned.           *)

HasHandle == startPc = "returned" /\ startRes \in {"handle", "synth"}

done == doneCloses > 0

\* What Wait returns once <-h.done went through.
WaitOutcome ==
    IF err # Nil THEN "err"
    ELSE IF result = NoResult THEN "ErrNotFound"
    ELSE IF result[1].ExitCode # 0 THEN "CommandExitError" ELSE "result"

\* What Wait hands back with that: the result itself, or the Stdout, Stderr,
\* ExitCode and Error of the result as the fields of the CommandExitError.
WaitValue ==
    IF WaitOutcome \in {"result", "CommandExitError"} THEN result ELSE NoResult

\* CommandHandle.Wait: the select takes <-h.done, or ctx.Done() of the
\* context the caller passed to Wait.
Wait ==
    /\ HasHandle
    /\ waitRes = "none"
    /\ \/ /\ done
          /\ waitRes' = WaitOutcome
          /\ waitVal' = WaitValue
       \/ /\ waitRes' = "ctxErr"
          /\ waitVal' = NoResult
    /\ UNCHANGED <<killed, srvVars, rcv, ctxCancelled, ctxExpired, cfgVars, openVars, bufVars,
                   result, err, doneCloses, canceled, pumpVars, cbVars, notCmdVars>>

\* CommandHandle.Disconnect
Disconnect ==
    /\ HasHandle
    /\ canceled' = TRUE
    /\ UNCHANGED <<srvVars, rcv, ctxCancelled, ctxExpired, cfgVars, openVars, bufVars,
                   result, err, doneCloses, pumpVars, cbVars, userVars, notCmdVars>>

\* Disconnect has returned: nothing else sets h.canceled.
disconnected == canceled

\* CommandHandle.Kill: h.handleKill(), which is streamCancel() followed by
\* the unary SendSignal RPC of Commands.Kill (no state of the handle).  The
\* handles that start synthesizes have no handleKill.
Kill ==
    /\ HasHandle
    /\ startRes = "handle"
    /\ ctxCancelled' = TRUE
    /\ killed' = TRUE
    /\ UNCHANGED <<srvVars, rcv, ctxExpired, cfgVars, openVars, bufVars, result, err,
                   doneCloses, canceled, pumpVars, cbVars, waitRes, waitVal, notCmdVars>>

-----------------------------------------------------------------------------
NextCmd ==
    \/ ServerEmit
    \/ ServerClose
    \/ StreamDeadline
    \/ OpenStream
    \/ StartReceive
    \/ StartStreamEnded
    \/ StartAppendStdout
    \/ StartOnStdout
    \/ StartAppendStderr
    \/ StartOnStderr
    \/ ConnectFirstEvent
    \/ PumpReceive
    \/ handleEvent
    \/ PumpCallback
    \/ PumpAfterLoop
    \/ PumpCloseDone
    \/ Wait
    \/ Disconnect
    \/ Kill

SpecCmd == InitCmd /\ [][NextCmd]_vars

-----------------------------------------------------------------------------
(* The safety limit of start's loop, against a server that keeps the       *)
(* stream alive with keepalives and sends the Start event late or never.   *)

\* The server sends a keepalive, or the Start event if it has not yet.
ServerKeepaliveOrStart ==
    /\ startPc = "loop"
    /\ streamEnd = "open"
    /\ Len(sent) - rcv < MaxInFlight
    /\ Count(sent, "start") = 0
    /\ \E e \in {Ev("ka", 0, 0), Ev("start", StartPid, 0)} : sent' = Append(sent, e)
    /\ UNCHANGED <<streamEnd, rcv, ctxCancelled, ctxExpired, cfgVars, openVars, bufVars, result,
                   err, doneCloses, canceled, pumpVars, cbVars, userVars, notCmdVars>>

\* start's loop ends because eventCount reached maxEvents: "if eventCount >=
\* maxEvents { streamCancel(); return nil, error }".
StartGiveUp ==
    /\ mode = "start"
    /\ startPc = "loop"
    /\ eventCount >= maxEvents
    /\ ctxCancelled' = TRUE
    /\ startPc' = "returned"
    /\ startRes' = "error"
    /\ startErr' = startErr
    /\ UNCHANGED <<srvVars, rcv, ctxExpired, cfgVars, eventCount, earlyStdout, earlyStderr,
                   pid, bufVars, result, err, doneCloses, canceled, pumpVars, cbVars,
                   userVars, notCmdVars>>

InitLimit ==
    CmdInit({"start"}, {FALSE}, {0}) /\ WatchInit({TRUE}) /\ SandboxInit({FALSE}, {"key"})
    /\ LockInit({TRUE}, {TRUE}) /\ ListInit({0})
    /\ ExecInit({NoRunTimeout}, {DefaultRequestTimeout}, {DefaultSandboxTimeout})
    /\ ErrInit
    /\ ReqInit({NoStdin}, {EnvdDebugFallback}, {""}, {DefaultCommandTimeout})
    /\ LifeInit({FALSE}, {"key"}, {""})
    /\ PtyInit({TRUE})
    /\ SigInit({"T"}, {EnvdDebugFallback})
    /\ BuildInit({"Build"}, {TRUE}, {TRUE})
    /\ TplInit

NextLimit ==
    \/ OpenStream
    \/ ServerKeepaliveOrStart
    \/ StartReceive
    \/ StartGiveUp

SpecLimit == InitLimit /\ [][NextLimit]_vars

-----------------------------------------------------------------------------
(* The WatchDir stream, server side.  An event is a Start, a Filesystem     *)
(* event or a Keepalive.                                                    *)

WatchServerEmit ==
    /\ wOpenPc # "init"
    /\ wStreamEnd = "open"
    /\ wEmitted < MaxWatchEvents + 1
    /\ \E k \in {"start", "fs", "ka"} : wQueue' = Append(wQueue, k)
    /\ wEmitted' = wEmitted + 1
    /\ UNCHANGED <<wStreamEnd, wCtxCancelled, wCfgVars, wOpenVars, wErr, wDoneCloses,
                   wStopped, wPumpVars, stopPc, wWaitVars, notWatchVars>>

WatchServerClose ==
    /\ wOpenPc # "init"
    /\ wStreamEnd = "open"
    /\ wStreamEnd' \in {"eof", "err"}
    /\ UNCHANGED <<wQueue, wEmitted, wCtxCancelled, wCfgVars, wOpenVars, wErr,
                   wDoneCloses, wStopped, wPumpVars, stopPc, wWaitVars, notWatchVars>>

\* The values stream.Err() can have when stream.Receive() returns false.
WatchFailErrs ==
    (IF wQueue = <<>> /\ wStreamEnd = "eof" THEN {Nil} ELSE {})
    \cup (IF wQueue = <<>> /\ wStreamEnd = "err" THEN {"streamErr"} ELSE {})
    \cup (IF wCtxCancelled THEN {"canceled"} ELSE {})

-----------------------------------------------------------------------------
(* Filesystem.WatchDir, on the caller's task.                               *)

\* The version gate, then fs.filesystemClient.WatchDir(watchCtx, req).
WatchDirOpen ==
    /\ wOpenPc = "init"
    /\ \E recursive \in BOOLEAN, supported \in BOOLEAN, opens \in BOOLEAN :
          IF recursive /\ ~supported
          THEN /\ wOpenPc' = "returned"
               /\ wOpenRes' = "ErrInvalidArgument"
               /\ UNCHANGED wCtxCancelled
          ELSE IF ~opens
          THEN /\ wOpenPc' = "returned"
               /\ wOpenRes' = "error"
               /\ wCtxCancelled' = TRUE
          ELSE /\ wOpenPc' = "firstEvent"
               /\ UNCHANGED <<wOpenRes, wCtxCancelled>>
    /\ UNCHANGED <<wSrvVars, wCfgVars, wErr, wDoneCloses, wStopped, wPumpVars, stopPc,
                   wWaitVars, notWatchVars>>

\* "Wait for start event": the first Receive, then the handle and the
\* event processing goroutine.
WatchDirFirstEvent ==
    /\ wOpenPc = "firstEvent"
    /\ \/ /\ wQueue # <<>>
          /\ wQueue' = Tail(wQueue)
          /\ IF Head(wQueue) = "start"
             THEN /\ wOpenRes' = "handle"
                  /\ wPumpPc' = "receive"
                  /\ UNCHANGED wCtxCancelled
             ELSE /\ wOpenRes' = "error"
                  /\ wCtxCancelled' = TRUE
                  /\ UNCHANGED wPumpPc
       \/ /\ wQueue = <<>>
          /\ WatchFailErrs # {}
          /\ wOpenRes' = "error"
          /\ wCtxCancelled' = TRUE
          /\ UNCHANGED <<wQueue, wPumpPc>>
    /\ wOpenPc' = "returned"
    /\ UNCHANGED <<wEmitted, wStreamEnd, wCfgVars, wErr, wDoneCloses, wStopped,
                   wPumpErr, onEventCalls, onExitCalls, stopPc, wWaitVars,
                   notWatchVars>>

-----------------------------------------------------------------------------
(* The event processing goroutine of WatchDir.                              *)

\* for stream.Receive() { switch ... }: a Filesystem event goes to onEvent,
\* Keepalive and Start are ignored; or the loop ends.
WatchPumpReceive ==
    /\ wPumpPc = "receive"
    /\ \/ /\ wQueue # <<>>
          /\ wQueue' = Tail(wQueue)
          /\ IF Head(wQueue) = "fs" /\ wOnEvent
             THEN /\ wPumpPc' = "onEvent"
                  /\ onEventCalls' = onEventCalls + 1
             ELSE UNCHANGED <<wPumpPc, onEventCalls>>
          /\ UNCHANGED wPumpErr
       \/ /\ \E e \in WatchFailErrs : wPumpErr' = e
          /\ wPumpPc' = "afterLoop"
          /\ UNCHANGED <<wQueue, onEventCalls>>
    /\ UNCHANGED <<wEmitted, wStreamEnd, wCtxCancelled, wCfgVars, wOpenVars, wErr,
                   wDoneCloses, wStopped, onExitCalls, stopPc, wWaitVars,
                   notWatchVars>>

\* onEvent(*fsEvent) returns.
WatchPumpOnEventReturns ==
    /\ wPumpPc = "onEvent"
    /\ wPumpPc' = "receive"
    /\ UNCHANGED <<wSrvVars, wCtxCancelled, wCfgVars, wOpenVars, wErr, wDoneCloses,
                   wStopped, wPumpErr, onEventCalls, onExitCalls, stopPc, wWaitVars,
                   notWatchVars>>

\* A goroutine that calls cfg.onExit only when the stream ended with an
\* error.
WatchPumpAfterLoop_ExitOnlyOnError ==
    /\ wPumpPc = "afterLoop"
    /\ wErr' = IF wPumpErr # Nil THEN wPumpErr ELSE wErr
    /\ IF wOnExit /\ wPumpErr # Nil
       THEN /\ wPumpPc' = "onExit"
            /\ onExitCalls' = onExitCalls + 1
       ELSE /\ wPumpPc' = "deferCancel"
            /\ UNCHANGED onExitCalls
    /\ UNCHANGED <<wSrvVars, wCtxCancelled, wCfgVars, wOpenVars, wDoneCloses, wStopped,
                   wPumpErr, onEventCalls, stopPc, wWaitVars, notWatchVars>>

\* "Check for errors": handle.setError(err) and the call of cfg.onExit.
WatchPumpAfterLoop ==
    /\ wPumpPc = "afterLoop"
    /\ wErr' = IF wPumpErr # Nil THEN wPumpErr ELSE wErr
    /\ IF wOnExit
       THEN /\ wPumpPc' = "onExit"
            /\ onExitCalls' = onExitCalls + 1
       ELSE /\ wPumpPc' = "deferCancel"
            /\ UNCHANGED onExitCalls
    /\ UNCHANGED <<wSrvVars, wCtxCancelled, wCfgVars, wOpenVars, wDoneCloses, wStopped,
                   wPumpErr, onEventCalls, stopPc, wWaitVars, notWatchVars>>

\* cfg.onExit(...) returns.
WatchPumpOnExitReturns ==
    /\ wPumpPc = "onExit"
    /\ wPumpPc' = "deferCancel"
    /\ UNCHANGED <<wSrvVars, wCtxCancelled, wCfgVars, wOpenVars, wErr, wDoneCloses,
                   wStopped, wPumpErr, onEventCalls, onExitCalls, stopPc, wWaitVars,
                   notWatchVars>>

\* defer cancel()
WatchPumpDeferCancel ==
    /\ wPumpPc = "deferCancel"
    /\ wCtxCancelled' = TRUE
    /\ wPumpPc' = "closeDone"
    /\ UNCHANGED <<wSrvVars, wCfgVars, wOpenVars, wErr, wDoneCloses, wStopped,
                   wPumpErr, onEventCalls, onExitCalls, stopPc, wWaitVars,
                   notWatchVars>>

\* A goroutine that exits without closing handle.done.
WatchPumpCloseDone_Never ==
    /\ wPumpPc = "closeDone"
    /\ wPumpPc' = "exited"
    /\ UNCHANGED <<wSrvVars, wCtxCancelled, wCfgVars, wOpenVars, wErr, wDoneCloses,
                   wStopped, wPumpErr, onEventCalls, onExitCalls, stopPc, wWaitVars,
                   notWatchVars>>

\* defer close(handle.done)
WatchPumpCloseDone ==
    /\ wPumpPc = "closeDone"
    /\ wDoneCloses' = wDoneCloses + 1
    /\ wPumpPc' = "exited"
    /\ UNCHANGED <<wSrvVars, wCtxCancelled, wCfgVars, wOpenVars, wErr, wStopped,
                   wPumpErr, onEventCalls, onExitCalls, stopPc, wWaitVars,
                   notWatchVars>>

-----------------------------------------------------------------------------
(* The user's calls on the WatchHandle.                                     *)

wDone == wDoneCloses > 0

\* WatchHandle.Stop, first part: the stopped flag under stoppedM.
StopEnter(t) ==
    /\ wOpenRes = "handle"
    /\ stopPc[t] = "idle"
    /\ IF wStopped
       THEN /\ stopPc' = [stopPc EXCEPT ![t] = "returned"]
            /\ UNCHANGED wStopped
       ELSE /\ wStopped' = TRUE
            /\ stopPc' = [stopPc EXCEPT ![t] = "cancel"]
    /\ UNCHANGED <<wSrvVars, wCtxCancelled, wCfgVars, wOpenVars, wErr, wDoneCloses,
                   wPumpVars, wWaitVars, notWatchVars>>

\* h.cancel()
StopCancel(t) ==
    /\ stopPc[t] = "cancel"
    /\ wCtxCancelled' = TRUE
    /\ stopPc' = [stopPc EXCEPT ![t] = "waitDone"]
    /\ UNCHANGED <<wSrvVars, wCfgVars, wOpenVars, wErr, wDoneCloses, wStopped,
                   wPumpVars, wWaitVars, notWatchVars>>

\* <-h.done
StopWaitDone(t) ==
    /\ stopPc[t] = "waitDone"
    /\ wDone
    /\ stopPc' = [stopPc EXCEPT ![t] = "returned"]
    /\ UNCHANGED <<wSrvVars, wCtxCancelled, wCfgVars, wOpenVars, wErr, wDoneCloses,
                   wStopped, wPumpVars, wWaitVars, notWatchVars>>

\* A Wait that reads h.err without receiving from h.done first.
WatchWait_NoBlock ==
    /\ wOpenRes = "handle"
    /\ wWaitRes = "none"
    /\ wWaitRes' = IF wErr = Nil THEN "noError" ELSE wErr
    /\ eventsAtWait' = onEventCalls
    /\ UNCHANGED <<wSrvVars, wCtxCancelled, wCfgVars, wOpenVars, wErr, wDoneCloses,
                   wStopped, wPumpVars, stopPc, notWatchVars>>

\* WatchHandle.Wait: <-h.done, then h.err under the read lock.
WatchWait ==
    /\ wOpenRes = "handle"
    /\ wWaitRes = "none"
    /\ wDone
    /\ wWaitRes' = IF wErr = Nil THEN "noError" ELSE wErr
    /\ eventsAtWait' = onEventCalls
    /\ UNCHANGED <<wSrvVars, wCtxCancelled, wCfgVars, wOpenVars, wErr, wDoneCloses,
                   wStopped, wPumpVars, stopPc, notWatchVars>>

NextWatch ==
    \/ WatchServerEmit
    \/ WatchServerClose
    \/ WatchDirOpen
    \/ WatchDirFirstEvent
    \/ WatchPumpReceive
    \/ WatchPumpOnEventReturns
    \/ WatchPumpAfterLoop
    \/ WatchPumpOnExitReturns
    \/ WatchPumpDeferCancel
    \/ WatchPumpCloseDone
    \/ \E t \in Stoppers : StopEnter(t)
    \/ \E t \in Stoppers : StopCancel(t)
    \/ \E t \in Stoppers : StopWaitDone(t)
    \/ WatchWait

SpecWatch == InitWatch /\ [][NextWatch]_vars

\* The goroutine and the tasks inside Stop are scheduled, and the user's
\* callbacks return.
WatchFairness ==
    /\ WF_vars(WatchPumpReceive)
    /\ WF_vars(WatchPumpOnEventReturns)
    /\ WF_vars(WatchPumpAfterLoop)
    /\ WF_vars(WatchPumpOnExitReturns)
    /\ WF_vars(WatchPumpDeferCancel)
    /\ WF_vars(WatchPumpCloseDone)
    /\ \A t \in Stoppers : WF_vars(StopCancel(t)) /\ WF_vars(StopWaitDone(t))

SpecWatchLive == SpecWatch /\ WatchFairness

-----------------------------------------------------------------------------
(* The Sandbox: Close, and the methods of its sub-facades.                  *)

\* A Close that asks the control plane to kill the sandbox on every call.
Close_KillsEveryTime ==
    /\ closeCalls < MaxCalls
    /\ closeCalls' = closeCalls + 1
    /\ closed' = TRUE
    /\ killRequests' = IF ~debug /\ apiKey # "" THEN killRequests + 1
                       ELSE killRequests
    /\ closeRes' = closeRes \cup {Nil}
    /\ UNCHANGED <<sbCfgVars, envdRequests, lastCall, rcVars, notSbVars>>

\* Sandbox.Close, under s.mu: the second call is a no-op; the first marks
\* the sandbox closed and kills it through the control plane (DELETE
\* /sandboxes/{id}, its error dropped) unless in debug mode or without an
\* API key.  Every path returns nil.
Close ==
    /\ closeCalls < MaxCalls
    /\ closeCalls' = closeCalls + 1
    /\ IF closed
       THEN UNCHANGED <<closed, killRequests>>
       ELSE /\ closed' = TRUE
            /\ killRequests' = IF ~debug /\ apiKey # "" THEN killRequests + 1
                               ELSE killRequests
    /\ closeRes' = closeRes \cup {Nil}
    /\ UNCHANGED <<sbCfgVars, envdRequests, lastCall, rcVars, notSbVars>>

\* The exported methods of the three sub-facades.
SubFacadeMethods ==
    ({"Commands"} \X {"List", "Kill", "SendStdin", "Run", "RunBackground", "Connect"})
    \cup ({"Pty"} \X {"Create", "Connect", "Kill", "SendStdin", "Resize"})
    \cup ({"Files"} \X {"Read", "ReadStream", "ReadBytes", "Write", "WriteFiles",
                        "List", "MakeDir", "Remove", "Rename", "Exists", "GetInfo",
                        "WatchDir", "CreateWatcher", "GetWatcherEvents",
                        "RemoveWatcher"})

\* What a sub-facade method returns: it validates its arguments, sends its
\* request to envd and hands back the answer or the translated error.  It
\* reads neither s.mu nor s.closed.
SubFacadeOutcomes == {"ErrInvalidArgument", "ok", "rpcError"}

SubFacadeCall(fm) ==
    /\ \E res \in SubFacadeOutcomes :
          /\ res # "ErrInvalidArgument" => envdRequests < MaxCalls
          /\ envdRequests' = IF res = "ErrInvalidArgument" THEN envdRequests
                             ELSE envdRequests + 1
          /\ lastCall' = [facade |-> fm[1], method |-> fm[2],
                          closedAtEntry |-> closed, res |-> res]
    /\ UNCHANGED <<sbCfgVars, closed, closeCalls, killRequests, closeRes, rcVars,
                   notSbVars>>

\* The options of a RunCode call: WithLanguage, WithContext.
Languages == {"", "javascript"}

Contexts == {Nil, "ctx-1"}

\* A RunCode that does not look at s.closed.
RunCodeEnter_NoClosedCheck(language, context) ==
    /\ rcPc \in {"idle", "returned"}
    /\ rcCalls < MaxCalls
    /\ rcCalls' = rcCalls + 1
    /\ rcLanguage' = language
    /\ rcContext' = context
    /\ rcClosedAtEntry' = closed
    /\ rcSent' = FALSE
    /\ rcPc' = "validate"
    /\ rcRes' = "none"
    /\ UNCHANGED <<sbCfgVars, closed, closeCalls, killRequests, envdRequests, lastCall,
                   closeRes, executeRequests, notSbVars>>

\* Sandbox.RunCode, first part: s.closed under the read lock.
RunCodeEnter(language, context) ==
    /\ rcPc \in {"idle", "returned"}
    /\ rcCalls < MaxCalls
    /\ rcCalls' = rcCalls + 1
    /\ rcLanguage' = language
    /\ rcContext' = context
    /\ rcClosedAtEntry' = closed
    /\ rcSent' = FALSE
    /\ IF closed
       THEN /\ rcPc' = "returned"
            /\ rcRes' = "ErrSandboxClosed"
       ELSE /\ rcPc' = "validate"
            /\ rcRes' = "none"
    /\ UNCHANGED <<sbCfgVars, closed, closeCalls, killRequests, envdRequests, lastCall,
                   closeRes, executeRequests, notSbVars>>

\* A RunCode that accepts a language together with a context.
RunCodeValidate_NoExclusion ==
    /\ rcPc = "validate"
    /\ rcPc' = "request"
    /\ UNCHANGED <<sbCfgVars, closed, closeCalls, killRequests, envdRequests, lastCall,
                   closeRes, rcLanguage, rcContext, rcClosedAtEntry, rcRes, rcSent,
                   rcCalls, executeRequests, notSbVars>>

\* Sandbox.RunCode: "Validate that language and context are not both
\* provided".
RunCodeValidate ==
    /\ rcPc = "validate"
    /\ IF rcLanguage # "" /\ rcContext # Nil
       THEN /\ rcPc' = "returned"
            /\ rcRes' = "ErrInvalidArgument"
       ELSE /\ rcPc' = "request"
            /\ UNCHANGED rcRes
    /\ UNCHANGED <<sbCfgVars, closed, closeCalls, killRequests, envdRequests, lastCall,
                   closeRes, rcLanguage, rcContext, rcClosedAtEntry, rcSent, rcCalls,
                   executeRequests, notSbVars>>

\* Sandbox.RunCode: s.httpClient.doStreamRequest(ctx, "/execute", ...) and
\* what RunCode makes of its outcome.
RunCodeRequest ==
    /\ rcPc = "request"
    /\ executeRequests' = executeRequests + 1
    /\ rcSent' = TRUE
    /\ rcRes' \in {"execution", "ExecutionTimeoutError", "httpError"}
    /\ rcPc' = "returned"
    /\ UNCHANGED <<sbCfgVars, closed, closeCalls, killRequests, envdRequests, lastCall,
                   closeRes, rcLanguage, rcContext, rcClosedAtEntry, rcCalls,
                   notSbVars>>

NextSandbox ==
    \/ Close
    \/ \E fm \in SubFacadeMethods : SubFacadeCall(fm)

\* Close and RunCode, the methods of Sandbox that take s.mu.  The sub-facade
\* calls touch none of their state and are left to SpecSandbox.
NextRunCode ==
    \/ Close
    \/ \E language \in Languages, context \in Contexts : RunCodeEnter(language, context)
    \/ RunCodeValidate
    \/ RunCodeRequest

SpecRunCode == InitSandbox /\ [][NextRunCode]_vars

SpecSandbox == InitSandbox /\ [][NextSandbox]_vars

-----------------------------------------------------------------------------
(* h.mu of a CommandHandle: who takes it, what is done inside it, and      *)
(* where the user's callbacks are called.  A task's place is <<"want", c>>  *)
(* before h.mu.Lock() of the critical section c, <<"in", c>> inside it.     *)

\* for stream.Receive(): the next event (a data event or the End event),
\* or the end of the loop with or without stream.Err().
LockPumpReceive ==
    /\ lkPc["pump"] = <<"receive">>
    /\ \/ /\ lkWork > 0
          /\ lkWork' = lkWork - 1
          /\ lkKind' \in {"data", "end"}
          /\ lkPc' = [lkPc EXCEPT !["pump"] = <<"want", "check">>]
       \/ /\ lkPc' \in {[lkPc EXCEPT !["pump"] = <<"want", "err">>],
                        [lkPc EXCEPT !["pump"] = <<"exited">>]}
          /\ UNCHANGED <<lkWork, lkKind>>
    /\ UNCHANGED <<mu, lkCb, lkCanceled, notLockVars>>

\* The user calls Disconnect.
LockUserDisconnect ==
    /\ lkPc["user"] = <<"idle">>
    /\ lkPc' = [lkPc EXCEPT !["user"] = <<"want", "disconnect">>]
    /\ UNCHANGED <<mu, lkKind, lkWork, lkCb, lkCanceled, notLockVars>>

\* h.mu.Lock()
Acquire(t) ==
    /\ lkPc[t][1] = "want"
    /\ mu = "free"
    /\ mu' = t
    /\ lkPc' = [lkPc EXCEPT ![t] = <<"in", lkPc[t][2]>>]
    /\ UNCHANGED <<lkKind, lkWork, lkCb, lkCanceled, notLockVars>>

\* Where a task goes on after the critical section c: the pump after the
\* check of h.canceled returns or handles the event; after the write of
\* handleDataEvent, and start after appendStdout/appendStderr, call the
\* callback if there is one.
AfterSection(c) ==
    CASE c = "check" -> IF lkCanceled THEN <<"exited">>
                        ELSE IF lkKind = "data" THEN <<"want", "data">>
                        ELSE <<"want", "end">>
      [] c = "data" -> IF lkCb THEN <<"callback">> ELSE <<"receive">>
      [] c = "end" -> <<"receive">>
      [] c = "err" -> <<"exited">>
      [] c = "append" -> IF lkCb THEN <<"callback">> ELSE <<"returned">>
      [] OTHER -> <<"returned">>

\* A critical section left without h.mu.Unlock().
Release_KeepsLock(t) ==
    /\ lkPc[t][1] = "in"
    /\ mu = t
    /\ lkCanceled' = (lkCanceled \/ lkPc[t][2] = "disconnect")
    /\ lkPc' = [lkPc EXCEPT ![t] = AfterSection(lkPc[t][2])]
    /\ UNCHANGED <<mu, lkKind, lkWork, lkCb, notLockVars>>

\* The critical section and the h.mu.Unlock() that ends it.
Release(t) ==
    /\ lkPc[t][1] = "in"
    /\ mu = t
    /\ mu' = "free"
    /\ lkCanceled' = (lkCanceled \/ lkPc[t][2] = "disconnect")
    /\ lkPc' = [lkPc EXCEPT ![t] = AfterSection(lkPc[t][2])]
    /\ UNCHANGED <<lkKind, lkWork, lkCb, notLockVars>>

\* callback(out) returns: the pump goes back to Receive, start returns.
CallbackReturns(t) ==
    /\ lkPc[t] = <<"callback">>
    /\ lkPc' = [lkPc EXCEPT ![t] = IF t = "pump" THEN <<"receive">> ELSE <<"returned">>]
    /\ UNCHANGED <<mu, lkKind, lkWork, lkCb, lkCanceled, notLockVars>>

InitLock ==
    CmdInit({"start"}, {TRUE}, {0}) /\ WatchInit({TRUE}) /\ SandboxInit({FALSE}, {"key"})
    /\ LockInit(BOOLEAN, BOOLEAN) /\ ListInit({0})
    /\ ExecInit({NoRunTimeout}, {DefaultRequestTimeout}, {DefaultSandboxTimeout})
    /\ ErrInit
    /\ ReqInit({NoStdin}, {EnvdDebugFallback}, {""}, {DefaultCommandTimeout})
    /\ LifeInit({FALSE}, {"key"}, {""})
    /\ PtyInit({TRUE})
    /\ SigInit({"T"}, {EnvdDebugFallback})
    /\ BuildInit({"Build"}, {TRUE}, {TRUE})
    /\ TplInit

NextLock ==
    \/ LockPumpReceive
    \/ LockUserDisconnect
    \/ \E t \in LockTasks : Acquire(t)
    \/ \E t \in LockTasks : Release(t)
    \/ \E t \in LockTasks : CallbackReturns(t)

SpecLock == InitLock /\ [][NextLock]_vars

-----------------------------------------------------------------------------
(* The sandbox listing: SandboxPaginator and ListAll against the control   *)
(* plane's GET /v2/sandboxes.                                               *)

\* The response to a request with next_token token: the page asked for (the
\* first without a token) and, in X-Next-Token, the token of the page after
\* it, or nothing after the last page.
PageIndex(token) == IF token = NoToken THEN 1 ELSE token[1]

Response(token) ==
    [items |-> srvPages[PageIndex(token)],
     header |-> IF PageIndex(token) < Len(srvPages) THEN <<PageIndex(token) + 1>>
                ELSE NoToken]

\* A paginator that takes an empty page for the end of the listing.
HasNextAfter_NonEmptyPage(header, items) == items # <<>>

\* "Update pagination state": p.hasNext = p.nextToken != "".
HasNextAfter(header, items) == header # NoToken

\* A ListAll that puts each new page in front.
Accumulate_InFront(all, items) == items \o all

\* all = append(all, items...)
Accumulate(all, items) == all \o items

\* A NextItems that reads X-Next-Token as soon as there is a response.
NextTokenAfter_HeaderFirst(outcome, nextToken, header) ==
    IF outcome = "transport" THEN nextToken ELSE header

\* p.nextToken after one NextItems call: every error return comes before
\* the assignment from the X-Next-Token header.
NextTokenAfter(outcome, nextToken, header) ==
    IF outcome = "ok" THEN header ELSE nextToken

\* SandboxPaginator.NextItems on the user's paginator: nothing to fetch; or
\* the request fails, the status is not 200 or the body does not parse, and
\* the call returns the error; or the page is returned and the pagination
\* state updated from the header.
NextItems ==
    /\ Len(pgPages) < MaxPages + 1
    /\ IF ~pgHasNext
       THEN /\ pgPages' = Append(pgPages, <<>>)
            /\ pgLastErr' = FALSE
            /\ UNCHANGED <<pgToken, pgHasNext, pgFetches, pgLastHeader>>
       ELSE \E outcome \in HTTPOutcomes :
               /\ pgLastErr' = (outcome # "ok")
               /\ pgToken' = NextTokenAfter(outcome, pgToken, Response(pgToken).header)
               /\ IF outcome = "ok"
                  THEN /\ pgPages' = Append(pgPages, Response(pgToken).items)
                       /\ pgHasNext' = HasNextAfter(Response(pgToken).header,
                                                    Response(pgToken).items)
                       /\ pgFetches' = pgFetches + 1
                       /\ pgLastHeader' = Response(pgToken).header
                  ELSE UNCHANGED <<pgHasNext, pgPages, pgFetches, pgLastHeader>>
    /\ UNCHANGED <<srvPages, laVars, notListVars>>

\* ListAll: paginator := List(opts...); var all []SandboxInfo
ListAllBegin ==
    /\ laPc = "init"
    /\ laPc' = "loop"
    /\ UNCHANGED <<srvPages, pgVars, laToken, laHasNext, laAll, laRes, notListVars>>

\* ListAll: one turn of "for paginator.HasNext()": NextItems fails and
\* ListAll returns the error, or the page is appended; after the loop it
\* returns all.
ListAllStep ==
    /\ laPc = "loop"
    /\ IF ~laHasNext
       THEN /\ laPc' = "returned"
            /\ laRes' = "ok"
            /\ UNCHANGED <<laToken, laHasNext, laAll>>
       ELSE \/ /\ laPc' = "returned"
               /\ laRes' = "error"
               /\ laAll' = <<>>
               /\ UNCHANGED <<laToken, laHasNext>>
            \/ /\ laAll' = Accumulate(laAll, Response(laToken).items)
               /\ laToken' = Response(laToken).header
               /\ laHasNext' = HasNextAfter(Response(laToken).header,
                                            Response(laToken).items)
               /\ UNCHANGED <<laPc, laRes>>
    /\ UNCHANGED <<srvPages, pgVars, notListVars>>

InitList ==
    CmdInit({"start"}, {TRUE}, {0}) /\ WatchInit({TRUE}) /\ SandboxInit({FALSE}, {"key"})
    /\ LockInit({TRUE}, {TRUE}) /\ ListInit(1..MaxPages)
    /\ ExecInit({NoRunTimeout}, {DefaultRequestTimeout}, {DefaultSandboxTimeout})
    /\ ErrInit
    /\ ReqInit({NoStdin}, {EnvdDebugFallback}, {""}, {DefaultCommandTimeout})
    /\ LifeInit({FALSE}, {"key"}, {""})
    /\ PtyInit({TRUE})
    /\ SigInit({"T"}, {EnvdDebugFallback})
    /\ BuildInit({"Build"}, {TRUE}, {TRUE})
    /\ TplInit

NextList ==
    \/ NextItems
    \/ ListAllBegin
    \/ ListAllStep

SpecList == InitList /\ [][NextList]_vars

-----------------------------------------------------------------------------
(* RunCode from its timeout on (src/sandbox.go:510-562): the                *)
(* code-execution deadline, the /execute request of doStreamRequest, the    *)
(* stream responses parseStreamResponse folds into the Execution, and the   *)
(* two timers that can cut the request.  Time is counted in seconds since   *)
(* the call began.                                                          *)

InitExec ==
    CmdInit({"start"}, {TRUE}, {0}) /\ WatchInit({TRUE}) /\ SandboxInit({FALSE}, {"key"})
    /\ LockInit({TRUE}, {TRUE}) /\ ListInit({0})
    /\ ExecInit(RunTimeouts, ClientTimeouts, Lifetimes)
    /\ ErrInit
    /\ ReqInit({NoStdin}, {EnvdDebugFallback}, {""}, {DefaultCommandTimeout})
    /\ LifeInit({FALSE}, {"key"}, {""})
    /\ PtyInit({TRUE})
    /\ SigInit({"T"}, {EnvdDebugFallback})
    /\ BuildInit({"Build"}, {TRUE}, {TRUE})
    /\ TplInit

\* The timeout RunCode computes from cfg.timeout: the default when it is
\* nil, none (0) when it points at 0, what it points at otherwise.
CodeExecutionTimeout(t) ==
    IF t = NoRunTimeout THEN DefaultCodeExecutionTimeout
    ELSE IF t[1] = 0 THEN 0
    ELSE t[1]

\* RunCode sets its deadline (context.WithTimeout when the timeout is
\* positive), initializes the Execution and calls doStreamRequest, which
\* sends the request.
RunCodeSend ==
    /\ xPc = "called"
    /\ xDeadline' = CodeExecutionTimeout(xRunTimeout)
    /\ execution' = NewExecution
    /\ xPc' = "request"
    /\ UNCHANGED <<xRunTimeout, xClientTimeout, xLifetime, xNow, xStatus, xLines, xBodyEnd,
                   xRead, xParsed, xErr, xAbort, xRes, notExecVars>>

\* ctx.Err() of RunCode's context is context.DeadlineExceeded.
ContextExpired == xDeadline > 0 /\ xNow >= xDeadline

\* client.Do arms the client's Timeout unless the request's context expires
\* sooner (net/http); the context's deadline was set before the request
\* began, so of two equal durations the context's ends first.
ClientTimerArmed ==
    xClientTimeout > 0 /\ (xDeadline = 0 \/ xClientTimeout < xDeadline)

ClientExpired == ClientTimerArmed /\ xNow >= xClientTimeout

InRequest == xPc \in {"request", "scan"}

\* The server answers the request with a status.
ServerRespond(status) ==
    /\ xPc = "request"
    /\ xStatus = 0
    /\ xBodyEnd = "open"
    /\ xStatus' = status
    /\ UNCHANGED <<xRunTimeout, xClientTimeout, xLifetime, xPc, xDeadline, xNow, xLines,
                   xBodyEnd, xRead, xParsed, execution, xErr, xAbort, xRes, notExecVars>>

\* The server writes a line to the body of its 200 response.
ServerWrite(line) ==
    /\ InRequest
    /\ xStatus = 200
    /\ xBodyEnd = "open"
    /\ Len(xLines) < MaxLines
    /\ xLines' = Append(xLines, line)
    /\ UNCHANGED <<xRunTimeout, xClientTimeout, xLifetime, xPc, xDeadline, xNow, xStatus,
                   xBodyEnd, xRead, xParsed, execution, xErr, xAbort, xRes, notExecVars>>

\* The server ends the body, or the connection breaks (before the response
\* or within it).
ServerEnd(how) ==
    /\ InRequest
    /\ xBodyEnd = "open"
    /\ how = "eof" => xStatus # 0
    /\ xBodyEnd' = how
    /\ UNCHANGED <<xRunTimeout, xClientTimeout, xLifetime, xPc, xDeadline, xNow, xStatus,
                   xLines, xRead, xParsed, execution, xErr, xAbort, xRes, notExecVars>>

\* client.Do returns: with an error when the connection broke, else with
\* the response; doStreamRequest returns formatHTTPError of a response that
\* is not 200 and starts to scan the body of one that is.
DoReturns ==
    /\ xPc = "request"
    /\ \/ /\ xStatus = 0
          /\ xBodyEnd = "broken"
          /\ xErr' = Error("none", "transport", 0, <<>>)
          /\ xPc' = "failed"
       \/ /\ xStatus \notin {0, 200}
          /\ xErr' = formatHTTPError(xStatus, "body")
          /\ xPc' = "failed"
       \/ /\ xStatus = 200
          /\ xErr' = xErr
          /\ xPc' = "scan"
    /\ UNCHANGED <<xRunTimeout, xClientTimeout, xLifetime, xDeadline, xNow, xStatus, xLines,
                   xBodyEnd, xRead, xParsed, execution, xAbort, xRes, notExecVars>>

\* One turn of doStreamRequest's scanner loop: the empty line and the line
\* that is no JSON are skipped, any other goes to parseStreamResponse, whose
\* error, if it returns one, ends the loop.
ScanLine ==
    /\ xPc = "scan"
    /\ xRead < Len(xLines)
    /\ xRead' = xRead + 1
    /\ LET line == xLines[xRead + 1]
           sr == Unmarshal(line)
       IN  IF line.kind = "empty" \/ sr = <<>>
           THEN UNCHANGED <<xParsed, execution, xPc, xErr>>
           ELSE /\ xParsed' = Append(xParsed, sr[1])
                /\ execution' = parseStreamResponse(sr[1], execution)
                /\ xErr' = parseStreamResponseError(sr[1])
                /\ xPc' = IF xErr' # NoErr THEN "failed" ELSE xPc
    /\ UNCHANGED <<xRunTimeout, xClientTimeout, xLifetime, xDeadline, xNow, xStatus,
                   xLines, xBodyEnd, xAbort, xRes, notExecVars>>

\* The scanner finds the end of the body: doStreamRequest returns nil, or
\* the scanner's error when the connection broke.
ScanEnd ==
    /\ xPc = "scan"
    /\ xRead = Len(xLines)
    /\ xBodyEnd # "open"
    /\ IF xBodyEnd = "eof"
       THEN xPc' = "finished" /\ xErr' = xErr
       ELSE xPc' = "failed" /\ xErr' = Error("none", "error reading stream", 0, <<>>)
    /\ UNCHANGED <<xRunTimeout, xClientTimeout, xLifetime, xDeadline, xNow, xStatus, xLines,
                   xBodyEnd, xRead, xParsed, execution, xAbort, xRes, notExecVars>>

\* The deadline of RunCode's context passes while the request is under
\* way: client.Do or the read of the body fails.
ContextDeadline ==
    /\ InRequest
    /\ ContextExpired
    /\ xErr' = Error("none", "context deadline exceeded", 0, <<>>)
    /\ xAbort' = [by |-> "context", at |-> xNow]
    /\ xPc' = "failed"
    /\ UNCHANGED <<xRunTimeout, xClientTimeout, xLifetime, xDeadline, xNow, xStatus, xLines,
                   xBodyEnd, xRead, xParsed, execution, xRes, notExecVars>>

\* The Timeout of the http.Client passes while the request is under way:
\* client.Do or the read of the body fails; RunCode's context is untouched.
ClientTimeout ==
    /\ InRequest
    /\ ClientExpired
    /\ xErr' = Error("none", "Client.Timeout exceeded", 0, <<>>)
    /\ xAbort' = [by |-> "client", at |-> xNow]
    /\ xPc' = "failed"
    /\ UNCHANGED <<xRunTimeout, xClientTimeout, xLifetime, xDeadline, xNow, xStatus, xLines,
                   xBodyEnd, xRead, xParsed, execution, xRes, notExecVars>>

\* Time passes; a timer that is due cuts the request before more passes.
Tick ==
    /\ xPc \notin {"called", "returned"}
    /\ xNow + TickStep <= MaxClock
    /\ ~(InRequest /\ (ContextExpired \/ ClientExpired))
    /\ xNow' = xNow + TickStep
    /\ UNCHANGED <<xRunTimeout, xClientTimeout, xLifetime, xPc, xDeadline, xStatus, xLines,
                   xBodyEnd, xRead, xParsed, execution, xErr, xAbort, xRes, notExecVars>>

\* RunCode without its look at ctx.Err(): the error of doStreamRequest as
\* it is.
RunCodeResult_NoDeadlineCheck(e, expired, ex) ==
    IF e # NoErr
    THEN [execution |-> <<>>, err |-> e]
    ELSE [execution |-> <<ex>>, err |-> NoErr]

\* What RunCode returns for the error e of doStreamRequest.
RunCodeResult(e, expired, ex) ==
    IF e # NoErr
    THEN IF expired
         THEN [execution |-> <<>>, err |-> NewExecutionTimeoutError]
         ELSE [execution |-> <<>>, err |-> e]
    ELSE [execution |-> <<ex>>, err |-> NoErr]

\* RunCode returns after doStreamRequest.
RunCodeReturn ==
    /\ xPc \in {"failed", "finished"}
    /\ xRes' = RunCodeResult(xErr, ContextExpired, execution)
    /\ xPc' = "returned"
    /\ UNCHANGED <<xRunTimeout, xClientTimeout, xLifetime, xDeadline, xNow, xStatus, xLines,
                   xBodyEnd, xRead, xParsed, execution, xErr, xAbort, notExecVars>>

NextExec ==
    \/ RunCodeSend
    \/ \E status \in Statuses : ServerRespond(status)
    \/ \E line \in StreamLines : ServerWrite(line)
    \/ \E how \in {"eof", "broken"} : ServerEnd(how)
    \/ DoReturns
    \/ ScanLine
    \/ ScanEnd
    \/ ContextDeadline
    \/ ClientTimeout
    \/ Tick
    \/ RunCodeReturn

SpecExec == InitExec /\ [][NextExec]_vars

-----------------------------------------------------------------------------
(* The translation of failed envd calls: the unary RPCs of the Commands and *)
(* Filesystem facades return wrapRPCError of their error, the HTTP calls of *)
(* the Filesystem facade handleHTTPError of the response, the Jupyter calls *)
(* of the Sandbox (/execute, /contexts) formatHTTPError of it.              *)

InitErr ==
    CmdInit({"start"}, {TRUE}, {0}) /\ WatchInit({TRUE}) /\ SandboxInit({FALSE}, {"key"})
    /\ LockInit({TRUE}, {TRUE}) /\ ListInit({0})
    /\ ExecInit({NoRunTimeout}, {DefaultRequestTimeout}, {DefaultSandboxTimeout})
    /\ ErrInit
    /\ ReqInit({NoStdin}, {EnvdDebugFallback}, {""}, {DefaultCommandTimeout})
    /\ LifeInit({FALSE}, {"key"}, {""})
    /\ PtyInit({TRUE})
    /\ SigInit({"T"}, {EnvdDebugFallback})
    /\ BuildInit({"Build"}, {TRUE}, {TRUE})
    /\ TplInit

\* A unary RPC of the Commands facade fails with e, its context expired or
\* not.
CommandsRPCFails(expired, e) ==
    /\ tIn' = RPCFailure("Commands", expired, e)
    /\ tOut' = CommandsWrapRPCError(expired, e)
    /\ UNCHANGED notErrVars

\* A unary RPC of the Filesystem facade fails with e.
FilesystemRPCFails(expired, e) ==
    /\ tIn' = RPCFailure("Filesystem", expired, e)
    /\ tOut' = FilesystemWrapRPCError(expired, e)
    /\ UNCHANGED notErrVars

\* An HTTP call of the Filesystem facade (read, write) gets a response that
\* is not 200.
FilesystemHTTPFails(status, body) ==
    /\ tIn' = HTTPFailure("Filesystem", status, body)
    /\ tOut' = handleHTTPError(status, body)
    /\ UNCHANGED notErrVars

\* doStreamRequest gets a response to /execute that is not 200.
ExecuteHTTPFails(status, body) ==
    /\ tIn' = HTTPFailure("execute", status, body)
    /\ tOut' = formatHTTPError(status, body.raw)
    /\ UNCHANGED notErrVars

NextErr ==
    \/ \E expired \in BOOLEAN, e \in RPCErrors : CommandsRPCFails(expired, e)
    \/ \E expired \in BOOLEAN, e \in RPCErrors : FilesystemRPCFails(expired, e)
    \/ \E status \in FailureStatuses, body \in HTTPBodies : FilesystemHTTPFails(status, body)
    \/ \E status \in FailureStatuses, body \in HTTPBodies : ExecuteHTTPFails(status, body)

SpecErr == InitErr /\ [][NextErr]_vars

-----------------------------------------------------------------------------
(* Commands.start up to the opening of its stream                           *)
(* (src/commands.go:276-315): the StartRequest, its headers, the stream's   *)
(* context, the Start RPC.                                                  *)

InitReq ==
    CmdInit({"start"}, {TRUE}, {0}) /\ WatchInit({TRUE}) /\ SandboxInit({FALSE}, {"key"})
    /\ LockInit({TRUE}, {TRUE}) /\ ListInit({0})
    /\ ExecInit({NoRunTimeout}, {DefaultRequestTimeout}, {DefaultSandboxTimeout})
    /\ ErrInit
    /\ ReqInit({NoStdin, WithStdin(TRUE), WithStdin(FALSE)}, EnvdVersions, {"", "root"},
               {0, DefaultCommandTimeout})
    /\ LifeInit({FALSE}, {"key"}, {""})
    /\ PtyInit({TRUE})
    /\ SigInit({"T"}, {EnvdDebugFallback})
    /\ BuildInit({"Build"}, {TRUE}, {TRUE})
    /\ TplInit

\* The user of the Authorization header: cfg.user, "user" when it is empty
\* and envd is older than EnvdVersionDefaultUser, no header ("") otherwise.
EffectiveUser(user, envdVersion) ==
    IF user = "" /\ compareVersion(envdVersion, EnvdVersionDefaultUser) < 0
    THEN "user"
    ELSE user

\* The StartRequest start builds: the stdin flag is cfg.stdin, false when
\* no option set it.
StartRequest(stdin, user, envdVersion, d) ==
    [stdin |-> IF stdin = NoStdin THEN FALSE ELSE stdin[1],
     authorization |-> EffectiveUser(user, envdVersion),
     deadline |-> d]

\* start builds its request, derives the stream's context and calls the
\* Start RPC, which opens the stream (failed is <<>>) or fails.
StartOpens(failed) ==
    /\ sPc = "called"
    /\ sReq' = <<StartRequest(sStdin, sUser, sVersion, sTimeout)>>
    /\ sStreams' = sStreams + 1
    /\ IF failed = <<>>
       THEN sPc' = "receiving" /\ sRes' = sRes
       ELSE sPc' = "returned" /\ sRes' = CommandsWrapRPCError(FALSE, failed[1])
    /\ UNCHANGED <<sStdin, sVersion, sUser, sTimeout, notReqVars>>

NextReq ==
    \E failed \in {<<>>} \cup {<<e>> : e \in RPCErrors} : StartOpens(failed)

SpecReq == InitReq /\ [][NextReq]_vars

-----------------------------------------------------------------------------
(* The life of a Sandbox (src/sandbox.go): New or Connect, then Close,      *)
(* SetTimeout, BetaPause, GetInfo and GetMetrics, each with the request it  *)
(* sends to the control plane, which answers with success or not.           *)

InitLife ==
    CmdInit({"start"}, {TRUE}, {0}) /\ WatchInit({TRUE}) /\ SandboxInit({FALSE}, {"key"})
    /\ LockInit({TRUE}, {TRUE}) /\ ListInit({0})
    /\ ExecInit({NoRunTimeout}, {DefaultRequestTimeout}, {DefaultSandboxTimeout})
    /\ ErrInit
    /\ ReqInit({NoStdin}, {EnvdDebugFallback}, {""}, {DefaultCommandTimeout})
    /\ LifeInit(BOOLEAN, {"", "key"}, {"", "token"})
    /\ PtyInit({TRUE})
    /\ SigInit({"T"}, {EnvdDebugFallback})
    /\ BuildInit({"Build"}, {TRUE}, {TRUE})
    /\ TplInit

ErrAPIKeyRequired == Error("ErrInvalidArgument", "API key is required", 0, <<>>)

ErrSandboxIDRequired == Error("ErrInvalidArgument", "sandbox ID is required", 0, <<>>)

ErrSandboxClosed == Error("ErrSandboxClosed", "sandbox is closed", 0, <<>>)

APIError(what) == Error("none", what, 0, <<>>)

\* A call that returned e after sending n requests to the control plane.
Called(op, e, n) ==
    /\ lLast' = [op |-> op, err |-> e, requests |-> n]
    /\ lRequests' = lRequests + n

\* A check that lets an access token stand in for the API key.
APIKeyMissing_NeitherCredential == lApiKey = "" /\ lAccessToken = ""

\* The check of New and Connect outside debug mode: cfg.apiKey is empty.
APIKeyMissing == lApiKey = ""

\* New: a mock sandbox in debug mode; else the API key is required and the
\* sandbox is created by a request to the control plane.
New(ok) ==
    /\ lPc = "init"
    /\ IF lDebug
       THEN Called("New", NoErr, 0) /\ lPc' = "live"
       ELSE IF APIKeyMissing
       THEN Called("New", ErrAPIKeyRequired, 0) /\ lPc' = "failed"
       ELSE IF ok
       THEN Called("New", NoErr, 1) /\ lPc' = "live"
       ELSE Called("New", APIError("failed to create sandbox"), 1) /\ lPc' = "failed"
    /\ UNCHANGED <<lDebug, lApiKey, lAccessToken, lClosed, lTimeoutMs, notLifeVars>>

\* Connect: the sandbox ID is required; then as New, with a connect
\* request.
Connect(sandboxID, ok) ==
    /\ lPc = "init"
    /\ IF sandboxID = ""
       THEN Called("Connect", ErrSandboxIDRequired, 0) /\ lPc' = "failed"
       ELSE IF lDebug
       THEN Called("Connect", NoErr, 0) /\ lPc' = "live"
       ELSE IF APIKeyMissing
       THEN Called("Connect", ErrAPIKeyRequired, 0) /\ lPc' = "failed"
       ELSE IF ok
       THEN Called("Connect", NoErr, 1) /\ lPc' = "live"
       ELSE Called("Connect", APIError("failed to connect to sandbox"), 1)
            /\ lPc' = "failed"
    /\ UNCHANGED <<lDebug, lApiKey, lAccessToken, lClosed, lTimeoutMs, notLifeVars>>

CanRequest == lRequests < MaxApiRequests

\* Close on the live sandbox: the first call kills the sandbox by a request
\* to the control plane, outside debug mode and with an API key; its error
\* is dropped.
LifeClose ==
    /\ lPc = "live"
    /\ CanRequest
    /\ lClosed' = TRUE
    /\ IF ~lClosed /\ ~lDebug /\ lApiKey # ""
       THEN Called("Close", NoErr, 1)
       ELSE Called("Close", NoErr, 0)
    /\ UNCHANGED <<lDebug, lApiKey, lAccessToken, lPc, lTimeoutMs, notLifeVars>>

\* SetTimeout: in debug mode the timeout is stored; else it is stored when
\* the control plane accepted it.
SetTimeout(d, ok) ==
    /\ lPc = "live"
    /\ CanRequest
    /\ IF lDebug
       THEN Called("SetTimeout", NoErr, 0) /\ lTimeoutMs' = d
       ELSE IF ok
       THEN Called("SetTimeout", NoErr, 1) /\ lTimeoutMs' = d
       ELSE Called("SetTimeout", APIError("API error"), 1) /\ lTimeoutMs' = lTimeoutMs
    /\ UNCHANGED <<lDebug, lApiKey, lAccessToken, lPc, lClosed, notLifeVars>>

\* BetaPause: refused on a closed sandbox, nothing in debug mode, else a
\* pause request.
BetaPause(ok) ==
    /\ lPc = "live"
    /\ CanRequest
    /\ IF lClosed
       THEN Called("BetaPause", ErrSandboxClosed, 0)
       ELSE IF lDebug
       THEN Called("BetaPause", NoErr, 0)
       ELSE Called("BetaPause", IF ok THEN NoErr ELSE APIError("API error"), 1)
    /\ UNCHANGED <<lDebug, lApiKey, lAccessToken, lPc, lClosed, lTimeoutMs, notLifeVars>>

\* GetInfo: GetSandboxInfo with the sandbox's ID, a GET request to the
\* control plane.
GetInfo(ok) ==
    /\ lPc = "live"
    /\ CanRequest
    /\ Called("GetInfo", IF ok THEN NoErr ELSE APIError("failed to send request"), 1)
    /\ UNCHANGED <<lDebug, lApiKey, lAccessToken, lPc, lClosed, lTimeoutMs, notLifeVars>>

\* GetMetrics: refused on a closed sandbox, else GetSandboxMetrics, a GET
\* request to the control plane.
GetMetrics(ok) ==
    /\ lPc = "live"
    /\ CanRequest
    /\ IF lClosed
       THEN Called("GetMetrics", ErrSandboxClosed, 0)
       ELSE Called("GetMetrics",
                   IF ok THEN NoErr ELSE APIError("failed to send request"), 1)
    /\ UNCHANGED <<lDebug, lApiKey, lAccessToken, lPc, lClosed, lTimeoutMs, notLifeVars>>

NextLife ==
    \/ \E ok \in BOOLEAN : New(ok)
    \/ \E sandboxID \in {"", "sbx"}, ok \in BOOLEAN : Connect(sandboxID, ok)
    \/ LifeClose
    \/ \E d \in {TickStep, DefaultSandboxTimeout}, ok \in BOOLEAN : SetTimeout(d, ok)
    \/ \E ok \in BOOLEAN : BetaPause(ok)
    \/ \E ok \in BOOLEAN : GetInfo(ok)
    \/ \E ok \in BOOLEAN : GetMetrics(ok)

SpecLife == InitLife /\ [][NextLife]_vars

-----------------------------------------------------------------------------
(* A PTY handle (Pty.Create, src/unnamed/part_000:122-199): the events of   *)
(* its stream go through handleEvent and handleDataEvent                    *)
(* (src/commands_handle.go:134-176) as those of a command do.               *)

InitPty ==
    CmdInit({"start"}, {TRUE}, {0}) /\ WatchInit({TRUE}) /\ SandboxInit({FALSE}, {"key"})
    /\ LockInit({TRUE}, {TRUE}) /\ ListInit({0})
    /\ ExecInit({NoRunTimeout}, {DefaultRequestTimeout}, {DefaultSandboxTimeout})
    /\ ErrInit
    /\ ReqInit({NoStdin}, {EnvdDebugFallback}, {""}, {DefaultCommandTimeout})
    /\ LifeInit({FALSE}, {"key"}, {""})
    /\ PtyInit(BOOLEAN)
    /\ SigInit({"T"}, {EnvdDebugFallback})
    /\ BuildInit({"Build"}, {TRUE}, {TRUE})
    /\ TplInit

\* The events of a PTY stream: data events whose payload is in the pty
\* field of the oneof (or in its stdout field), keepalives, the End event.
PtyChunks == {"x", "y"}

PtyDataEvent(chunk) == [kind |-> "data", field |-> "pty", payload |-> chunk]

PtyEvents ==
    {PtyDataEvent(chunk) : chunk \in PtyChunks}
    \cup {[kind |-> "data", field |-> "stdout", payload |-> "o"],
          [kind |-> "keepalive", field |-> "", payload |-> ""],
          [kind |-> "end", field |-> "", payload |-> ""]}

\* handleDataEvent: what a data event adds to h.stdout, which is also what
\* it passes to onStdout: the stdout field when it is set; nothing for the
\* stderr field (that goes to h.stderr) or the pty field (ignored).
handleDataEventStdout(event) ==
    IF event.kind = "data" /\ event.field = "stdout" THEN <<event.payload>> ELSE <<>>

\* The server emits an event.
PtyServerEmit(event) ==
    /\ ~pStreamEnd
    /\ Len(pSent) < MaxPtyEvents
    /\ pSent' = Append(pSent, event)
    /\ UNCHANGED <<pStreamEnd, pRcv, pCb, pStdout, pOnStdout, pDone, notPtyVars>>

\* The server closes the stream.
PtyServerClose ==
    /\ ~pStreamEnd
    /\ pStreamEnd' = TRUE
    /\ UNCHANGED <<pSent, pRcv, pCb, pStdout, pOnStdout, pDone, notPtyVars>>

\* One turn of the pump's loop: Receive, then handleEvent.
processPtyEvents ==
    /\ ~pDone
    /\ pRcv < Len(pSent)
    /\ pRcv' = pRcv + 1
    /\ LET out == handleDataEventStdout(pSent[pRcv + 1])
       IN  /\ pStdout' = pStdout \o out
           /\ pOnStdout' = IF pCb THEN pOnStdout \o out ELSE pOnStdout
    /\ UNCHANGED <<pSent, pStreamEnd, pCb, pDone, notPtyVars>>

\* Receive reports the end of the stream: the pump leaves its loop and
\* closes h.done.
processPtyEventsEnd ==
    /\ ~pDone
    /\ pRcv = Len(pSent)
    /\ pStreamEnd
    /\ pDone' = TRUE
    /\ UNCHANGED <<pSent, pStreamEnd, pRcv, pCb, pStdout, pOnStdout, notPtyVars>>

NextPty ==
    \/ \E event \in PtyEvents : PtyServerEmit(event)
    \/ PtyServerClose
    \/ processPtyEvents
    \/ processPtyEventsEnd

SpecPty == InitPty /\ [][NextPty]_vars

(***************************************************************************)
(* Signed file URLs: Sandbox.UploadURL and Sandbox.DownloadURL.            *)
(***************************************************************************)
InitSig ==
    CmdInit({"start"}, {TRUE}, {0}) /\ WatchInit({TRUE}) /\ SandboxInit({FALSE}, {"key"})
    /\ LockInit({TRUE}, {TRUE}) /\ ListInit({0})
    /\ ExecInit({NoRunTimeout}, {DefaultRequestTimeout}, {DefaultSandboxTimeout})
    /\ ErrInit
    /\ ReqInit({NoStdin}, {EnvdDebugFallback}, {""}, {DefaultCommandTimeout})
    /\ LifeInit({FALSE}, {"key"}, {""})
    /\ PtyInit({TRUE})
    /\ SigInit({"", "T"}, {EmptyVersion, EnvdVersionDefaultUser})
    /\ BuildInit({"Build"}, {TRUE}, {TRUE})
    /\ TplInit

\* The body shared by UploadURL and DownloadURL: the default user of older
\* envd versions, the base URL, and the signature parameters when the
\* sandbox has an access token.  The call is recorded with the arguments
\* it gave getSignature and the time it read.
SignedURL(operation, path, cfgUser, signatureExpiration) ==
    LET user == IF cfgUser = "" /\ compareVersion(gVersion, EnvdVersionDefaultUser) < 0
                THEN "user" ELSE cfgUser
        baseURL == fileURL(path, user)
        s == getSignature(path, operation, user, gToken, signatureExpiration, gNow)
        url == IF gToken = "" THEN baseURL
               ELSE baseURL @@ [p \in {"signature"} |-> s.sig]
                    @@ (IF s.exp > 0
                        THEN [p \in {"signature_expiration"} |-> ToString(s.exp)]
                        ELSE <<>>)
    IN [path |-> path, op |-> operation, user |-> user, token |-> gToken,
        exp |-> signatureExpiration, at |-> gNow,
        signed |-> gToken # "", sig |-> s.sig, expiration |-> s.exp, url |-> url]

UploadURL(path, cfgUser, signatureExpiration) ==
    /\ Len(gCalls) < MaxSigCalls
    /\ gCalls' = Append(gCalls, SignedURL("write", path, cfgUser, signatureExpiration))
    /\ UNCHANGED <<gToken, gVersion, gNow, notSigVars>>

DownloadURL(path, cfgUser, signatureExpiration) ==
    /\ Len(gCalls) < MaxSigCalls
    /\ gCalls' = Append(gCalls, SignedURL("read", path, cfgUser, signatureExpiration))
    /\ UNCHANGED <<gToken, gVersion, gNow, notSigVars>>

\* A second passes.
SigTick ==
    /\ gNow < MaxSigClock
    /\ gNow' = gNow + 1
    /\ UNCHANGED <<gToken, gVersion, gCalls, notSigVars>>

NextSig ==
    \/ \E path \in SigPaths, u \in SigUsers, e \in SignatureExpirations :
          UploadURL(path, u, e)
    \/ \E path \in SigPaths, u \in SigUsers, e \in SignatureExpirations :
          DownloadURL(path, u, e)
    \/ SigTick

SpecSig == InitSig /\ [][NextSig]_vars

(***************************************************************************)
(* Template builds: TemplateBuilder.Build and WaitForBuild.                *)
(***************************************************************************)
InitBuild ==
    CmdInit({"start"}, {TRUE}, {0}) /\ WatchInit({TRUE}) /\ SandboxInit({FALSE}, {"key"})
    /\ LockInit({TRUE}, {TRUE}) /\ ListInit({0})
    /\ ExecInit({NoRunTimeout}, {DefaultRequestTimeout}, {DefaultSandboxTimeout})
    /\ ErrInit
    /\ ReqInit({NoStdin}, {EnvdDebugFallback}, {""}, {DefaultCommandTimeout})
    /\ LifeInit({FALSE}, {"key"}, {""})
    /\ PtyInit({TRUE})
    /\ SigInit({"T"}, {EnvdDebugFallback})
    /\ BuildInit({"Build", "WaitForBuild"}, BOOLEAN, BOOLEAN)
    /\ TplInit

StatusRequests == SelectSeq(bRequests, LAMBDA r : r.endpoint = "status")

\* The phases after one of them returned e and Build went to pc.
PhasesAfter(name, e, pc) ==
    LET ended == Append(bPhases, [name |-> name, err |-> e])
    IN IF pc = "top" THEN Append(ended, [name |-> "WaitForBuild", err |-> Running])
       ELSE ended

\* requestBuildInternal, and what Build does with its error.
RequestBuild(outcome) ==
    /\ bPc = "RequestBuild"
    /\ LET e == CallError(bCred, bCancelled, outcome)
           pc == BuildAfter("TriggerBuild", e)
       IN /\ bRequests' = IF bCred /\ ~bCancelled
                          THEN Append(bRequests, [endpoint |-> "POST /v3/templates",
                                                  logsOffset |-> 0, delivered |-> 0])
                          ELSE bRequests
          /\ bPc' = pc
          /\ bPhases' = PhasesAfter("RequestBuild", e, pc)
          /\ bRes' = IF pc = "returned" THEN [err |-> e] ELSE bRes
    /\ UNCHANGED <<bEntry, bCred, bOnLogs, bLog, bSrvStatus, bResp, bOffset, bDelivered,
                   bCancelled, bAtCancel, notBuildVars>>

\* triggerBuildInternal, which parses no body, and what Build does with
\* its error.
TriggerBuild(outcome) ==
    /\ bPc = "TriggerBuild"
    /\ outcome # "parse"
    /\ LET e == CallError(bCred, bCancelled, outcome)
           pc == BuildAfter("top", e)
       IN /\ bRequests' = IF bCred /\ ~bCancelled
                          THEN Append(bRequests, [endpoint |-> "POST /v2/templates/builds",
                                                  logsOffset |-> 0, delivered |-> 0])
                          ELSE bRequests
          /\ bPc' = pc
          /\ bPhases' = PhasesAfter("TriggerBuild", e, pc)
          /\ bRes' = IF pc = "returned" THEN [err |-> e] ELSE bRes
    /\ UNCHANGED <<bEntry, bCred, bOnLogs, bLog, bSrvStatus, bResp, bOffset, bDelivered,
                   bCancelled, bAtCancel, notBuildVars>>

\* waitForBuildInternal returns e, and so does Build.
WaitReturns(e) ==
    /\ bPc' = "returned"
    /\ bRes' = [err |-> e]
    /\ bPhases' = [bPhases EXCEPT ![Len(bPhases)].err = e]

\* The head of the polling loop: select on ctx.Done() with a default.
WaitTop ==
    /\ bPc = "top"
    /\ IF CtxDone(bCancelled) THEN WaitReturns(ContextCanceled)
       ELSE bPc' = "do" /\ UNCHANGED <<bRes, bPhases>>
    /\ UNCHANGED <<bEntry, bCred, bOnLogs, bRequests, bLog, bSrvStatus, bResp, bOffset,
                   bDelivered, bCancelled, bAtCancel, notBuildVars>>

\* getBuildStatusInternal up to httpClient.Do: the credential check, the
\* endpoint with logsOffset when it is positive, and the request, which a
\* cancelled context does not send.
StatusSend ==
    /\ bPc = "do"
    /\ IF ~bCred \/ bCancelled
       THEN /\ WaitReturns(CallError(bCred, bCancelled, "ok"))
            /\ UNCHANGED bRequests
       ELSE /\ Len(StatusRequests) < MaxPolls
            /\ bRequests' = Append(bRequests,
                   [endpoint |-> "status",
                    logsOffset |-> IF bOffset > 0 THEN bOffset ELSE 0,
                    delivered |-> Len(bDelivered)])
            /\ bPc' = "inflight"
            /\ UNCHANGED <<bRes, bPhases>>
    /\ UNCHANGED <<bEntry, bCred, bOnLogs, bLog, bSrvStatus, bResp, bOffset, bDelivered,
                   bCancelled, bAtCancel, notBuildVars>>

\* The server answers the status request with the entries of its log from
\* logsOffset on and the build's status, or the exchange fails.
StatusRespond(outcome, reason) ==
    /\ bPc = "inflight"
    /\ reason # Nil => outcome = "ok" /\ bSrvStatus = "error"
    /\ IF outcome = "ok"
       THEN /\ bResp' = [entries |-> SubSeq(bLog, bRequests[Len(bRequests)].logsOffset + 1,
                                            Len(bLog)),
                         status |-> bSrvStatus, reason |-> reason]
            /\ bPc' = "replay"
            /\ UNCHANGED <<bRes, bPhases>>
       ELSE /\ WaitReturns(ExchangeError(outcome))
            /\ UNCHANGED bResp
    /\ UNCHANGED <<bEntry, bCred, bOnLogs, bRequests, bLog, bSrvStatus, bOffset,
                   bDelivered, bCancelled, bAtCancel, notBuildVars>>

\* The context is cancelled while the request is in flight: Do returns the
\* context's error.
StatusAbort ==
    /\ bPc = "inflight"
    /\ bCancelled
    /\ WaitReturns(SendFailed("context.Canceled"))
    /\ UNCHANGED <<bEntry, bCred, bOnLogs, bRequests, bLog, bSrvStatus, bResp, bOffset,
                   bDelivered, bCancelled, bAtCancel, notBuildVars>>

\* The rest of one iteration: the entries go to cfg.onLogs, logsOffset
\* advances, and the status ends the wait or lets it sleep.
WaitReplay ==
    /\ bPc = "replay"
    /\ bDelivered' = IF bOnLogs THEN bDelivered \o bResp.entries ELSE bDelivered
    /\ bOffset' = NextLogsOffset(bOffset, bResp.entries)
    /\ IF StatusContinues(bResp.status) THEN bPc' = "sleep" /\ UNCHANGED <<bRes, bPhases>>
       ELSE WaitReturns(StatusVerdict(bResp.status, bResp.reason))
    /\ UNCHANGED <<bEntry, bCred, bOnLogs, bRequests, bLog, bSrvStatus, bResp,
                   bCancelled, bAtCancel, notBuildVars>>

\* time.Sleep(cfg.pollInterval) returns.
WaitSleep ==
    /\ bPc = "sleep"
    /\ bPc' = "top"
    /\ UNCHANGED <<bEntry, bCred, bOnLogs, bPhases, bRequests, bLog, bSrvStatus, bResp,
                   bOffset, bDelivered, bCancelled, bAtCancel, bRes, notBuildVars>>

\* The caller cancels ctx while the call runs.
CancelCtx ==
    /\ ~bCancelled
    /\ bPc # "returned"
    /\ bCancelled' = TRUE
    /\ bAtCancel' = [pc |-> bPc, polls |-> Len(StatusRequests)]
    /\ UNCHANGED <<bEntry, bCred, bOnLogs, bPc, bPhases, bRequests, bLog, bSrvStatus,
                   bResp, bOffset, bDelivered, bRes, notBuildVars>>

\* The build writes a log entry; entries are numbered in the order written.
BuildServerLogs ==
    /\ bSrvStatus \in {"waiting", "building"}
    /\ Len(bLog) < MaxLogEntries
    /\ bLog' = Append(bLog, Len(bLog) + 1)
    /\ UNCHANGED <<bEntry, bCred, bOnLogs, bPc, bPhases, bRequests, bSrvStatus, bResp,
                   bOffset, bDelivered, bCancelled, bAtCancel, bRes, notBuildVars>>

\* The build moves on: waiting, building, then ready, error or a status
\* this client does not know.
BuildServerAdvance(status) ==
    /\ \/ bSrvStatus = "waiting" /\ status = "building"
       \/ bSrvStatus = "building" /\ status \in {"ready", "error", "uploaded"}
    /\ bSrvStatus' = status
    /\ UNCHANGED <<bEntry, bCred, bOnLogs, bPc, bPhases, bRequests, bLog, bResp,
                   bOffset, bDelivered, bCancelled, bAtCancel, bRes, notBuildVars>>

NextBuild ==
    \/ \E outcome \in HTTPOutcomes : RequestBuild(outcome)
    \/ \E outcome \in HTTPOutcomes : TriggerBuild(outcome)
    \/ WaitTop
    \/ StatusSend
    \/ \E outcome \in HTTPOutcomes, reason \in {Nil, "oom"} : StatusRespond(outcome, reason)
    \/ StatusAbort
    \/ WaitReplay
    \/ WaitSleep
    \/ CancelCtx
    \/ BuildServerLogs
    \/ \E status \in {"building", "ready", "error", "uploaded"} : BuildServerAdvance(status)

SpecBuild == InitBuild /\ [][NextBuild]_vars

(***************************************************************************)
(* The template builder: SkipCache and the methods that add a step.        *)
(***************************************************************************)
InitTpl ==
    CmdInit({"start"}, {TRUE}, {0}) /\ WatchInit({TRUE}) /\ SandboxInit({FALSE}, {"key"})
    /\ LockInit({TRUE}, {TRUE}) /\ ListInit({0})
    /\ ExecInit({NoRunTimeout}, {DefaultRequestTimeout}, {DefaultSandboxTimeout})
    /\ ErrInit
    /\ ReqInit({NoStdin}, {EnvdDebugFallback}, {""}, {DefaultCommandTimeout})
    /\ LifeInit({FALSE}, {"key"}, {""})
    /\ PtyInit({TRUE})
    /\ SigInit({"T"}, {EnvdDebugFallback})
    /\ BuildInit({"Build"}, {TRUE}, {TRUE})
    /\ TplInit

\* SkipCache; kSkipAt keeps the number of instructions at its first call.
SkipCache ==
    /\ kForce' = TRUE
    /\ kForceNextLayer' = TRUE
    /\ kSkipAt' = IF kSkipAt = <<>> THEN <<Len(kInstructions)>> ELSE kSkipAt
    /\ UNCHANGED <<kInstructions, notTplVars>>

\* What every step method does: the step is appended, forced by its own
\* option or by forceNextLayer, and forceNextLayer is reset.
AppendStep(type, force) ==
    /\ Len(kInstructions) < MaxSteps
    /\ kInstructions' = Append(kInstructions, TemplateStep(type, force \/ kForceNextLayer))
    /\ kForceNextLayer' = FALSE
    /\ UNCHANGED <<kForce, kSkipAt, notTplVars>>

\* RunCmd with or without WithStepForce(true).
RunCmd(force) == AppendStep("RUN", force)

\* Copy with or without WithCopyForceUpload(true).
Copy(forceUpload) == AppendStep("COPY", forceUpload)

SetEnv == AppendStep("ENV", FALSE)

SetWorkdir == AppendStep("WORKDIR", FALSE)

SetUser == AppendStep("USER", FALSE)

\* toBuildSpec: the steps and the build's force flag.
toBuildSpec == [Steps |-> kInstructions, Force |-> kForce]

NextTpl ==
    \/ SkipCache
    \/ \E force \in BOOLEAN : RunCmd(force)
    \/ \E forceUpload \in BOOLEAN : Copy(forceUpload)
    \/ SetEnv
    \/ SetWorkdir
    \/ SetUser

SpecTpl == InitTpl /\ [][NextTpl]_vars

-----------------------------------------------------------------------------
(* The claims.                                                              *)

\* C1: after a CommandHandle's done signal has closed, exactly one of
\* {result non-nil, err non-nil} holds: never both, never neither.
C1_ExactlyOneOfResultErr ==
    done => ((result # NoResult) # (err # Nil))

\* C2: the done signal of a handle is closed at most once, and it is closed
\* once the pump has left its loop and finished (stream closed, stream
\* cancelled or handle disconnected); a handle synthesized as already
\* finished has it closed too.
C2_DoneClosedOnce ==
    /\ doneCloses <= 1
    /\ pumpPc = "exited" => doneCloses = 1
    /\ startRes = "synth" => doneCloses = 1
    /\ done => (pumpPc = "exited" \/ startRes = "synth")

\* C2, witness: a pump that left its loop because the stream was cancelled
\* by Kill has closed done.
C2_Witness ==
    /\ pumpPc = "exited"
    /\ killed
    /\ pumpEv.k = "canceled"
    /\ doneCloses = 1

\* C3: once Sandbox.Close has returned, every method of the Files, Commands
\* and Pty sub-facades fails with the sandbox-closed error.
C3_SubFacadesFailWhenClosed ==
    (lastCall # NoCall /\ lastCall.closedAtEntry) => lastCall.res = "ErrSandboxClosed"

\* C4: the chunks consumed before the Start event reach the user's callback,
\* and the callbacks see the bytes in the order the server emitted them:
\* what the stdout (stderr) callback has been given so far is a prefix of
\* the concatenation of the emitted stdout (stderr) chunks.
C4_CallbackOrderIsEmissionOrder ==
    /\ IsPrefix(cbStdout, Chunks(sent, "out"))
    /\ IsPrefix(cbStderr, Chunks(sent, "err"))
    /\ (withCb /\ startPc = "returned" /\ startRes = "handle")
          => /\ \A i \in 1..Len(earlyStdout) :
                    \E j \in 1..Len(cbStdout) : cbStdout[j] = earlyStdout[i]
             /\ \A i \in 1..Len(earlyStderr) :
                    \E j \in 1..Len(cbStderr) : cbStderr[j] = earlyStderr[i]

\* C5: the stdout (stderr) of the result published at the End event is the
\* concatenation, in emission order, of every stdout (stderr) chunk the
\* server emitted before End, the chunks consumed before Start included.
C5_ResultIsConcatenation ==
    (result # NoResult /\ Count(sent, "end") > 0)
        => /\ result[1].Stdout = Chunks(sent, "out")
           /\ result[1].Stderr = Chunks(sent, "err")

\* C6: after Disconnect has returned, nothing is written to the handle's
\* state: no append to the stdout/stderr buffers, no publication of a result.
C6_NoWriteAfterDisconnect ==
    [][disconnected => (stdout' = stdout /\ stderr' = stderr /\ result' = result)]_vars

\* C7: Kill and Disconnect cancel the context of the handle's stream, so a
\* pump waiting in Receive is not blocked: Receive can return (and the pump
\* go on to close done) without the server sending anything.
C7_CancelReleasesPump ==
    (startRes = "handle" /\ (killed \/ disconnected))
        => /\ ctxCancelled
           /\ pumpPc = "receive" => (CanReceive \/ FailErrs # {})

\* C8: when Wait has returned the result, the context of the stream is
\* cancelled in the background.  Stated for the states in which no task of
\* the SDK is left that could still cancel it: start has returned and the
\* pump has exited.  A context that its own deadline has ended counts as
\* released.
C8_WaitCancelsStream ==
    (waitRes = "result" /\ startPc = "returned" /\ pumpPc \in {"none", "exited"})
        => (ctxCancelled \/ ctxExpired)

\* C9: every call of WatchHandle.Stop, a second call made while the first
\* is in progress included, returns only after the event pump has exited.
C9_StopReturnsAfterPumpExit ==
    \A t \in Stoppers : stopPc[t] = "returned" => (wDone /\ wPumpPc = "exited")

\* C10: WatchHandle.Wait returns only after the event pump has exited: once
\* Wait has returned the pump is finished, no onEvent callback is running
\* and none is started any more.
C10_WaitReturnsAfterPumpExit ==
    wWaitRes # "none" => (wPumpPc = "exited" /\ onEventCalls = eventsAtWait)

\* C10, witness: Wait has returned for a watch that delivered events.
C10_Witness ==
    /\ wWaitRes # "none"
    /\ onEventCalls > 0

\* C11: Sandbox.Close is idempotent: however many times it is called, every
\* call returns nil and at most one DELETE /sandboxes/{id} request is sent
\* to the control plane in total.
C11_CloseIdempotent ==
    /\ closeRes \subseteq {Nil}
    /\ killRequests <= 1
    /\ closeCalls > 0 => closed

\* C11, witness: Close was called twice on a sandbox with an API key, and
\* one kill request went out.
C11_Witness ==
    /\ closeCalls >= 2
    /\ closeRes = {Nil}
    /\ killRequests = 1

\* C19: a RunCode call that begins after Close has returned fails with
\* ErrSandboxClosed and sends no /execute request.
C19_RunCodeAfterCloseFails ==
    rcClosedAtEntry => (rcPc = "returned" /\ rcRes = "ErrSandboxClosed" /\ ~rcSent)

\* C19, witness: a RunCode call made after Close, following one that was
\* made before Close and did send its request.
C19_Witness ==
    /\ rcClosedAtEntry
    /\ rcPc = "returned"
    /\ rcCalls = 2
    /\ executeRequests = 1

\* C20: a RunCode call given both a language and a context fails with
\* ErrInvalidArgument and sends no /execute request (on a closed sandbox the
\* closed check comes first and the call fails with ErrSandboxClosed, also
\* without a request).
C20_LanguageAndContextExclusive ==
    (rcPc # "idle" /\ rcLanguage # "" /\ rcContext # Nil)
        => /\ ~rcSent
           /\ rcPc # "request"
           /\ rcPc = "returned"
                 => rcRes = IF rcClosedAtEntry THEN "ErrSandboxClosed"
                            ELSE "ErrInvalidArgument"

\* C20, witness: such a call on an open sandbox has returned
\* ErrInvalidArgument.
C20_Witness ==
    /\ rcLanguage # ""
    /\ rcContext # Nil
    /\ ~rcClosedAtEntry
    /\ rcPc = "returned"
    /\ rcRes = "ErrInvalidArgument"

\* The events start or Connect and the pump have received so far.
Received == SubSeq(sent, 1, rcv)

\* C12: start consumes at most 100 events, and a Start event that arrives
\* as any of the first 100 events yields a running handle with its pid:
\* start gives up only when 100 events went by without one.
C12_StartWithinLimitYieldsHandle ==
    /\ eventCount <= maxEvents
    /\ (startPc = "returned" /\ Count(Received, "start") > 0)
          => (startRes = "handle" /\ pid = StartPid)

\* C13: when the stream of start ends with no Start (and no End) after data
\* was buffered, start returns a handle whose done is closed, whose pid is 0
\* and whose result has exit code 0 and the buffered chunks, in order, as
\* stdout and stderr.
C13_StreamEndWithDataSynthesizes ==
    (/\ mode = "start"
     /\ startPc = "returned"
     /\ startRes # "rpcError"
     /\ Count(Received, "start") = 0
     /\ Count(Received, "end") = 0
     /\ Count(Received, "out") + Count(Received, "err") > 0)
        => /\ startRes = "synth"
           /\ done
           /\ pid = 0
           /\ err = Nil
           /\ result = CommandResult(Chunks(Received, "out"), Chunks(Received, "err"), 0)

\* C13, witness: the stream failed after two chunks and the handle
\* carries both.
C13_Witness ==
    /\ startRes = "synth"
    /\ streamEnd = "err"
    /\ Count(Received, "end") = 0
    /\ Len(result[1].Stdout) + Len(result[1].Stderr) = 2

\* C14: every streaming open of a process stream buffers the data events
\* that come before the Start event and keeps reading: an open whose first
\* event was a data event does not fail for that.
C14_OpenBuffersEarlyData ==
    (startPc = "returned" /\ rcv >= 1 /\ sent[1].k \in {"out", "err"})
        => startRes \in {"handle", "synth", "exitError"}

\* C15: when Wait has waited for the handle to finish and the End event
\* (the published result) carries a non-zero exit code, Wait returns a
\* CommandExitError with the stdout, stderr, exit code and error message of
\* the result; with exit code zero it returns the result itself.
C15_WaitReportsExit ==
    (waitRes \notin {"none", "ctxErr"} /\ result # NoResult)
        => /\ waitRes = IF result[1].ExitCode # 0 THEN "CommandExitError" ELSE "result"
           /\ waitVal = result

\* C16: whenever a stdout/stderr callback of a command handle is running,
\* the task that called it does not hold the handle's lock.
C16_CallbackWithoutLock ==
    \A t \in LockTasks : lkPc[t] = <<"callback">> => mu # t

\* C16, witness: the pump is inside the callback of a data event while the
\* caller of Disconnect holds h.mu.
C16_Witness ==
    /\ lkPc["pump"] = <<"callback">>
    /\ lkKind = "data"
    /\ mu = "user"

\* The concatenation of the pages in ps, in order.
RECURSIVE Flatten(_)
Flatten(ps) == IF ps = <<>> THEN <<>> ELSE Head(ps) \o Flatten(Tail(ps))

\* C17: what ListAll returns is the concatenation, in order, of the pages
\* that successive NextItems calls on a fresh paginator return until
\* HasNext is false.
C17_ListAllIsConcatenation ==
    (laRes = "ok" /\ ~pgHasNext) => laAll = Flatten(pgPages)

\* C17, witness: a listing of two pages, three sandboxes in all, read to
\* its end both ways.
C17_Witness ==
    /\ laRes = "ok"
    /\ ~pgHasNext
    /\ Len(srvPages) = 2
    /\ Len(laAll) = 3

\* C18: HasNext is true before the first fetch; after a successful
\* NextItems it is true exactly if the X-Next-Token header of the response
\* was not empty.
C18_HasNextFollowsHeader ==
    /\ pgFetches = 0 => pgHasNext
    /\ pgFetches > 0 => (pgHasNext <=> pgLastHeader # NoToken)

\* C18, witness: after the first page, which was empty, HasNext is still
\* true because the response named a next token.
C18_Witness ==
    /\ pgFetches = 1
    /\ pgPages = << <<>> >>
    /\ pgLastHeader # NoToken
    /\ pgHasNext

\* C21: the only deadline the SDK puts on a RunCode request is the one the
\* run-timeout option gives: 60 s when the option is not set, none when it
\* is 0, d when it is d > 0; so no timer of the SDK cuts the request when
\* the option is 0, and none cuts it before that deadline otherwise.
C21_DeadlineFromRunTimeoutOnly ==
    xPc # "called" =>
        /\ xDeadline = (IF xRunTimeout = NoRunTimeout THEN 60 ELSE xRunTimeout[1])
        /\ xAbort.by # "none" => (xDeadline > 0 /\ xAbort.at >= xDeadline)

\* C22: when the code-execution deadline cut the request, the stream not
\* yet at its end, RunCode returns the execution-timeout error (ErrTimeout,
\* not ErrRequestTimeout) and no Execution.
C22_DeadlineGivesExecutionTimeout ==
    (xPc = "returned" /\ xAbort.by = "context") =>
        /\ xRes.execution = <<>>
        /\ xRes.err = NewExecutionTimeoutError
        /\ xRes.err.is = "ErrTimeout"
        /\ xRes.err.is # NewRequestTimeoutError.is

\* The server writes nothing, the default deadline passes, RunCode returns.
C22_Witness ==
    /\ xPc = "returned"
    /\ xAbort.by = "context"
    /\ xRunTimeout = NoRunTimeout
    /\ xClientTimeout = DefaultRequestTimeout
    /\ xLines = <<>>
    /\ xRes.err = NewExecutionTimeoutError

\* The texts of the lines of the given type among lines that decode, in
\* the order of the lines.
RECURSIVE TextsOf(_, _)
TextsOf(lines, type) ==
    IF lines = <<>> THEN <<>>
    ELSE (IF Head(lines).kind = "json" /\ Head(lines).type = type
          THEN <<Head(lines).text>> ELSE <<>>) \o TextsOf(Tail(lines), type)

\* C23: the Execution a successful RunCode returns has in logs.stdout
\* (logs.stderr) one entry for each stdout (stderr) event of the stream, in
\* the order of the stream, each the text of its event.
C23_LogsFollowStream ==
    (xPc = "returned" /\ xRes.err = NoErr) =>
        /\ xRes.execution[1].stdout = TextsOf(xLines, "stdout")
        /\ xRes.execution[1].stderr = TextsOf(xLines, "stderr")

\* A successful RunCode whose stream brought two stdout events.
C23_Witness ==
    /\ xPc = "returned"
    /\ xRes.err = NoErr
    /\ xRes.execution[1].stdout = <<"b", "a">>

\* The error events among lines, in the order of the lines.
RECURSIVE ErrorEventsOf(_)
ErrorEventsOf(lines) ==
    IF lines = <<>> THEN <<>>
    ELSE (IF Head(lines).kind = "json" /\ Head(lines).type = "error"
          THEN <<[name |-> Head(lines).name, value |-> Head(lines).value,
                  traceback |-> Head(lines).traceback]>>
          ELSE <<>>) \o ErrorEventsOf(Tail(lines))

\* C24: an error event in the stream makes no RunCode fail: when the 200
\* response with an error event ended and no timer cut the request, RunCode
\* returns a nil error and the Execution, whose error has the name, value
\* and traceback of the event.
C24_ErrorEventIsNoFailure ==
    (/\ xPc = "returned"
     /\ ErrorEventsOf(xLines) # <<>>
     /\ xStatus = 200
     /\ xBodyEnd = "eof"
     /\ xAbort.by = "none") =>
        /\ xRes.err = NoErr
        /\ xRes.execution # <<>>
        /\ xRes.execution[1].error
             = <<ErrorEventsOf(xLines)[Len(ErrorEventsOf(xLines))]>>

\* RunCode returned the Execution of a stream with an error event.
C24_Witness ==
    /\ xPc = "returned"
    /\ ErrorEventsOf(xLines) # <<>>
    /\ xRes.err = NoErr
    /\ xRes.execution[1].error
         = <<[name |-> "NameError", value |-> "x is not defined", traceback |-> "line 1"]>>

\* C25: the error returned for a failed RPC follows the Connect code of the
\* failure: not_found gives ErrNotFound, invalid_argument gives
\* ErrInvalidArgument, deadline_exceeded the request-timeout error,
\* unavailable the sandbox-unavailable error, resource_exhausted ErrRateLimit.
C25_RPCErrorByConnectCode ==
    (tIn.via \in {"Commands", "Filesystem"} /\ tIn.rpc.connect /\ ~tIn.expired) =>
        /\ tIn.rpc.code = "not_found" => tOut.is = "ErrNotFound"
        /\ tIn.rpc.code = "invalid_argument" => tOut.is = "ErrInvalidArgument"
        /\ tIn.rpc.code = "deadline_exceeded" => tOut = NewRequestTimeoutError
        /\ tIn.rpc.code = "unavailable" => tOut.kind = "sandbox unavailable"
        /\ tIn.rpc.code = "resource_exhausted" => tOut.is = "ErrRateLimit"

\* C26: the error returned for an HTTP response of the sandbox that is no
\* success, the reply to /execute included, follows its status: 400 gives
\* ErrInvalidArgument, 401 the authentication error, 404 ErrNotFound, 429
\* the rate-limited error, 502 the request-timeout error, 507 the
\* out-of-disk error, any other an error with the status and the body.
C26_HTTPErrorByStatus ==
    (tIn.via \in {"Filesystem", "execute"} /\ tIn.status # 0) =>
        /\ tIn.status = 400 => tOut.is = "ErrInvalidArgument"
        /\ tIn.status = 401 => tOut.kind = "authentication error"
        /\ tIn.status = 404 => tOut.is = "ErrNotFound"
        /\ tIn.status = 429 => tOut.kind = "rate limited"
        /\ tIn.status = 502 => tOut = NewRequestTimeoutError
        /\ tIn.status = 507 => tOut.kind = "not enough disk space"
        /\ tIn.status \notin {400, 401, 404, 429, 502, 507} =>
              (tOut.status = tIn.status /\ tOut.message # <<>>)

\* C27: a start with stdin explicitly disabled on an envd older than 0.3.0
\* (the empty version included) returns an invalid-argument error and opens
\* no Start stream.
C27_StdinDisableRefusedOnOldEnvd ==
    (/\ sPc # "called"
     /\ sStdin = WithStdin(FALSE)
     /\ compareVersion(sVersion, <<0, 3, 0>>) < 0) =>
        /\ sPc = "returned"
        /\ sRes.is = "ErrInvalidArgument"
        /\ sStreams = 0

\* C28 as stated: outside debug mode New and Connect (of a sandbox ID)
\* return the invalid-argument error for missing credentials exactly when
\* neither an API key nor an access token is configured.
C28_RefusedIffNoCredential ==
    (/\ lLast.op \in {"New", "Connect"}
     /\ ~lDebug
     /\ lLast.err # ErrSandboxIDRequired) =>
        ((lLast.err.is = "ErrInvalidArgument") <=> (lApiKey = "" /\ lAccessToken = ""))

\* C28: outside debug mode New and Connect (of a sandbox ID) return the
\* invalid-argument error for missing credentials exactly when no API key
\* is configured, an access token or none.
C28_RefusedIffNoAPIKey ==
    (/\ lLast.op \in {"New", "Connect"}
     /\ ~lDebug
     /\ lLast.err # ErrSandboxIDRequired) =>
        /\ (lLast.err.is = "ErrInvalidArgument") <=> (lApiKey = "")
        /\ lLast.err.is = "ErrInvalidArgument" => (lLast.err = ErrAPIKeyRequired
                                                   /\ lLast.requests = 0)

\* New or Connect refused a configuration with an access token and no API
\* key.
C28_Witness ==
    /\ lLast.op \in {"New", "Connect"}
    /\ ~lDebug
    /\ lApiKey = ""
    /\ lAccessToken # ""
    /\ lLast.err = ErrAPIKeyRequired

\* C29: a sandbox in debug mode sends no request to the control plane,
\* whatever of New, Connect, Close, SetTimeout, BetaPause, GetInfo and
\* GetMetrics is called on it.
C29_DebugSendsNoControlPlaneRequest ==
    lDebug => lRequests = 0

\* The payloads of the pty data events among events, in their order.
RECURSIVE PtyPayloads(_)
PtyPayloads(events) ==
    IF events = <<>> THEN <<>>
    ELSE (IF Head(events).kind = "data" /\ Head(events).field = "pty"
          THEN <<Head(events).payload>> ELSE <<>>) \o PtyPayloads(Tail(events))

SignedCalls == {i \in 1..Len(gCalls) : gCalls[i].signed}

SameArguments(i, j) ==
    /\ gCalls[i].path = gCalls[j].path
    /\ gCalls[i].op = gCalls[j].op
    /\ gCalls[i].user = gCalls[j].user
    /\ gCalls[i].token = gCalls[j].token
    /\ gCalls[i].exp = gCalls[j].exp

SameSignature(i, j) ==
    /\ gCalls[i].sig = gCalls[j].sig
    /\ gCalls[i].expiration = gCalls[j].expiration

\* C31 as stated: two computations of the URL signature with equal
\* (path, op, user, token, exp) give the same signature string and the same
\* expiration value, whenever they are evaluated.
C31_SignatureStableAtAnyTime ==
    \A i, j \in SignedCalls : SameArguments(i, j) => SameSignature(i, j)

\* C31: two computations of the URL signature with equal
\* (path, op, user, token, exp) give the same signature string and the same
\* expiration value when exp is 0 or when both are evaluated in the same
\* second.
C31_SignatureStableAtSameTime ==
    \A i, j \in SignedCalls :
        SameArguments(i, j) /\ (gCalls[i].exp = 0 \/ gCalls[i].at = gCalls[j].at)
            => SameSignature(i, j)

\* Two signatures without expiration were computed from equal arguments at
\* different times, and two with an expiration in the same second.
C31_Witness ==
    /\ Len(gCalls) = 2
    /\ SignedCalls = {1, 2}
    /\ SameArguments(1, 2)
    /\ \/ gCalls[1].exp = 0 /\ gCalls[1].at # gCalls[2].at
       \/ gCalls[1].exp > 0 /\ gCalls[1].at = gCalls[2].at

PhaseNames == [i \in 1..Len(bPhases) |-> bPhases[i].name]

\* C32: Build begins RequestBuild, TriggerBuild and WaitForBuild in that
\* order, begins a phase only after every earlier one returned no error,
\* and once a phase has returned an error Build has returned that error
\* and begun nothing after it.
C32_PhasesInOrderFailStop ==
    bEntry = "Build" =>
        /\ PhaseNames = SubSeq(BuildPhases, 1, Len(bPhases))
        /\ \A i \in 1..Len(bPhases) :
              \/ bPhases[i].err = NoErr
              \/ /\ i = Len(bPhases)
                 /\ \/ bPhases[i].err = Running /\ bRes = NoReturn
                    \/ bPhases[i].err # Running /\ bRes = [err |-> bPhases[i].err]
        /\ bRes # NoReturn /\ bRes.err = NoErr =>
              Len(bPhases) = 3 /\ bPhases[3].err = NoErr

\* TriggerBuild failed after RequestBuild succeeded, and Build returned
\* TriggerBuild's error with two requests sent and no status poll.
C32_Witness ==
    /\ bEntry = "Build"
    /\ Len(bPhases) = 2
    /\ bPhases[1].err = NoErr
    /\ bPhases[2].err = ExchangeError("status")
    /\ bRes = [err |-> ExchangeError("status")]
    /\ Len(bRequests) = 2
    /\ StatusRequests = <<>>

\* The wait ended on the build's own status, ready or error.
WaitEndedByStatus ==
    /\ bRes # NoReturn
    /\ bResp # NoResponse
    /\ bRes.err = StatusVerdict(bResp.status, bResp.reason)
    /\ bResp.status \in {"ready", "error"}

\* C33: with a log callback, the entries given to it are at every moment
\* the first entries of the build's log, each once and in the log's order;
\* every status request asks for logsOffset equal to the number of entries
\* given to the callback before it; and when the wait ends on the status
\* ready or error, the callback has been given the whole log.
C33_LogsReplayedOnceInOrder ==
    bOnLogs =>
        /\ IsPrefix(bDelivered, bLog)
        /\ \A i \in 1..Len(StatusRequests) :
              StatusRequests[i].logsOffset = StatusRequests[i].delivered
        /\ WaitEndedByStatus => bDelivered = bLog

\* The wait ended with ready after three polls that brought the two
\* entries of the log one at a time.
C33_Witness ==
    /\ bOnLogs
    /\ WaitEndedByStatus
    /\ bRes.err = NoErr
    /\ bDelivered = <<1, 2>>
    /\ [i \in 1..Len(StatusRequests) |-> StatusRequests[i].logsOffset] = <<0, 1, 2>>

IsCancellation(e) == e.is = "context.Canceled"

\* ctx was cancelled after the check at the head of the iteration that
\* was running.
CancelledMidIteration == bAtCancel.pc \in {"do", "inflight", "replay"}

\* No status request was sent after ctx was cancelled.
NoRequestAfterCancel == bCancelled => Len(StatusRequests) = bAtCancel.polls

WaitReturnedCancelled ==
    /\ bCancelled
    /\ bRes # NoReturn
    /\ Len(bPhases) > 0
    /\ bPhases[Len(bPhases)].name = "WaitForBuild"

\* C40 as stated: once ctx is cancelled, WaitForBuild sends no further
\* status request and what it returns is the cancellation error.
C40_CancelledWaitReturnsCancellation ==
    /\ NoRequestAfterCancel
    /\ WaitReturnedCancelled => IsCancellation(bRes.err)

\* C40: once ctx is cancelled, WaitForBuild sends no further status
\* request, and what it returns is the cancellation error unless ctx was
\* cancelled during the iteration that ended the wait, after that
\* iteration's check of ctx.
C40_CancelledWaitStopsPolling ==
    /\ NoRequestAfterCancel
    /\ WaitReturnedCancelled => IsCancellation(bRes.err) \/ CancelledMidIteration

\* ctx was cancelled during the sleep after a poll that found the build
\* building, and WaitForBuild returned ctx.Err() without a second poll.
C40_Witness ==
    /\ bCancelled
    /\ bAtCancel = [pc |-> "sleep", polls |-> 1]
    /\ bRes = [err |-> ContextCanceled]
    /\ Len(StatusRequests) = 1
    /\ bResp # NoResponse
    /\ bResp.status = "building"

\* The steps added after the first call of SkipCache.
StepsAfterSkipCache ==
    IF kSkipAt = <<>> THEN {} ELSE (kSkipAt[1] + 1)..Len(kInstructions)

\* C34: after SkipCache, every step added afterwards has force = true in
\* the build spec.
C34_AllStepsAfterSkipCacheForced ==
    \A i \in StepsAfterSkipCache : toBuildSpec.Steps[i].Force

\* The events start has received.
StartReceived == SubSeq(sent, 1, rcv)

\* start received an End event and no Start event before it.
EndBeforeStart ==
    /\ mode = "start"
    /\ startPc = "returned"
    /\ rcv > 0
    /\ sent[rcv].k = "end"
    /\ Count(StartReceived, "start") = 0

\* C35: when start receives an End event before any Start event, exit code
\* 0 makes it return a handle with pid 0 and done closed whose result has
\* the End event's exit code and error and the output received before it;
\* another exit code makes it return a CommandExitError with those fields
\* and no handle.
C35_EndBeforeStartByExitCode ==
    EndBeforeStart =>
        IF sent[rcv].code = 0
        THEN /\ startRes = "synth"
             /\ startErr = NoExitError
             /\ pid = 0
             /\ done
             /\ result = <<[Stdout |-> Chunks(StartReceived, "out"),
                            Stderr |-> Chunks(StartReceived, "err"),
                            ExitCode |-> 0, Error |-> ""]>>
        ELSE /\ startRes = "exitError"
             /\ ~HasHandle
             /\ result = NoResult
             /\ startErr = <<[Stdout |-> Chunks(StartReceived, "out"),
                              Stderr |-> Chunks(StartReceived, "err"),
                              ExitCode |-> sent[rcv].code, ErrorMessage |-> "oops"]>>

\* start returned a CommandExitError that carries output of both kinds
\* received before the End event.
C35_Witness ==
    /\ EndBeforeStart
    /\ sent[rcv].code # 0
    /\ startErr # NoExitError
    /\ startErr[1].Stdout # <<>>
    /\ startErr[1].Stderr # <<>>

\* C36: whenever a handle's result is non-nil, what Stdout() and Stderr()
\* return starts with result.Stdout and result.Stderr.
C36_AccessorsExtendResult ==
    HasHandle /\ result # NoResult =>
        /\ IsPrefix(result[1].Stdout, stdout)
        /\ IsPrefix(result[1].Stderr, stderr)

\* C37: a NextItems call that fails leaves the paginator's next token and
\* HasNext as they were, so that the next call asks for the same page.
C37_FailedNextItemsKeepsPosition ==
    [][pgLastErr' => /\ pgToken' = pgToken
                     /\ pgHasNext' = pgHasNext
                     /\ Response(pgToken') = Response(pgToken)]_vars

\* A NextItems call failed on the second page of a listing.
C37_Witness ==
    /\ pgLastErr
    /\ pgFetches = 1
    /\ pgHasNext
    /\ pgToken # NoToken
    /\ Len(srvPages) = 2

\* C38: on a watch handle with an onExit callback, onExit is invoked at
\* most once; once it is invoked the goroutine is past its receive loop, so
\* that every onEvent invocation has returned and no other begins; and
\* done closes only after the one invocation of onExit has returned,
\* whatever ended the stream.
C38_OnExitOnceBetweenEventsAndDone ==
    wOnExit /\ wOpenRes = "handle" =>
        /\ onExitCalls <= 1
        /\ onExitCalls = 1 => wPumpPc \in {"onExit", "deferCancel", "closeDone", "exited"}
        /\ wDone => onExitCalls = 1 /\ wPumpPc = "exited"

\* A stopped watch that delivered an event has called onExit and closed
\* done.
C38_Witness ==
    /\ wOnExit
    /\ wOpenRes = "handle"
    /\ wStopped
    /\ wPumpErr = "canceled"
    /\ onEventCalls > 0
    /\ onExitCalls = 1
    /\ wDone

\* C39: every call of WatchHandle.Stop made from a task other than the
\* goroutine's callbacks returns in the end, also when the stream had
\* ended by itself or with an error.
C39_StopReturns ==
    \A t \in Stoppers : (stopPc[t] \in {"cancel", "waitDone"}) ~> (stopPc[t] = "returned")

\* Stop has returned on a watch whose stream had ended with an error.
C39_Witness ==
    /\ \E t \in Stoppers : stopPc[t] = "returned"
    /\ wStopped
    /\ wPumpErr = "streamErr"
    /\ wDone
====
